---- MODULE Spec2Model ----
(***************************************************************************)
(* Model of the Plex playlist client of plex_api_tester.                   *)
(*                                                                         *)
(* Two revisions of the client live in the repository and both are         *)
(* modelled:                                                               *)
(*   - plex/api_client.py: class PlexAPIClient configured from the shared  *)
(*     config_instance (plex/config.py); its operations are methods.       *)
(*     Definitions keep the method names (create_playlist, ...).           *)
(*   - plex_api_client.py: class PlexAPIClient configured from the process *)
(*     environment, with module-level functions that construct a client on *)
(*     every call.  Definitions carry the prefix fn_ (fn_create_playlist). *)
(*                                                                         *)
(* The HTTP library and the server are the environment: every request is   *)
(* answered by a nondeterministically chosen Response or by a network      *)
(* exception (requests.RequestException).                                  *)
(***************************************************************************)
EXTENDS Integers, Sequences, FiniteSets, TLC

VARIABLES
    config,   \* config_instance: _baseurl, _token, X_PLEX_VERSION
    env,      \* process environment: PLEX_BASEURL, PLEX_TOKEN
    client,   \* the PlexAPIClient object of plex/api_client.py, or NoClient
    auth,     \* TRUE when a PlexAuthentication object has been constructed
    reqs,     \* HTTP requests issued by the last operation, in order
    last,     \* the last operation: its inputs, the responses, the outcome
    arg,      \* the input of a parser call (specifications of the parser)
    held      \* the parser calls made so far with the results their caller
              \* holds, oldest first (SpecPure)

vars == <<config, env, client, auth, reqs, last, arg, held>>

-----------------------------------------------------------------------------
(* Bounds of the model *)

MaxElems == 2      \* elements below the root of an XML response
MaxIds   == 2      \* length of an id list (playlistItemIDs, item_uris)
MaxCalls == 3      \* parser calls of one caller (SpecPure)

-----------------------------------------------------------------------------
(* Python values *)

None == "<None>"

Falsy(v) == v \in {None, ""}          \* `not v` for an Optional[str]

NoneV      == [t |-> "None"]
BoolV(b)   == [t |-> "bool", b |-> b]
ListV(s)   == [t |-> "list", v |-> s]
DictV(d)   == [t |-> "dict", v |-> d]
TreeV(e)   == [t |-> "tree", elems |-> e]
JsonV(j)   == [t |-> "json", v |-> j]
RespV(r)   == [t |-> "response", status |-> r.status, body |-> r.body]

(* The outcome of a call: a returned value or a raised exception, with the *)
(* levels of the records it logged.                                        *)
Return(v, logs) == [outcome |-> "return", exc |-> "", ret |-> v, logs |-> logs]
Raise(e, logs)  == [outcome |-> "raise", exc |-> e, ret |-> NoneV, logs |-> logs]

-----------------------------------------------------------------------------
(* Configuration values *)

BaseUrls == {"http://h1:32400", "http://h2:32400"}
Tokens   == {"t1", "t2"}
TIMEOUT  == 30
SIGNIN_URL == "https://plex.tv/users/sign_in.json"

NoClient == [baseurl |-> None, token |-> None]

-----------------------------------------------------------------------------
(* XML documents: the elements below the root in document order, which is  *)
(* the order root.findall(".//Tag") visits them.  An element has a tag and *)
(* the attributes it carries; Element.get answers None for the others.     *)

PlaylistAttrs == {"ratingKey", "title", "playlistType"}

Truthy(v) == ~Falsy(v)

Get(el, a) == IF a \in DOMAIN el.attrs THEN el.attrs[a] ELSE None

MkElemK(tag, vals, kids) ==
    [tag |-> tag, kids |-> kids,
     attrs |-> [a \in {x \in DOMAIN vals : vals[x] # None} |-> vals[a]]]

MkElem(tag, vals) == MkElemK(tag, vals, <<>>)

NoElem == [tag |-> None, kids |-> <<>>, attrs |-> <<>>]      \* the None of find()

RECURSIVE Descendants(_)
Descendants(elems) ==
    IF elems = <<>> THEN <<>>
    ELSE <<Head(elems)>> \o Descendants(Head(elems).kids) \o Descendants(Tail(elems))

(* root.findall(".//tag") on the children elems of root *)
findall(elems, tag) == SelectSeq(Descendants(elems), LAMBDA e : e.tag = tag)

find(elems, tag) ==
    IF findall(elems, tag) = <<>> THEN NoElem ELSE Head(findall(elems, tag))

SeqsUpTo(S, n) == UNION {[1..k -> S] : k \in 0..n}

-----------------------------------------------------------------------------
(* HTTP: what the server and the network can answer *)

Statuses == {200, 201, 204, 300, 404, 500}

Garbage        == [fmt |-> "garbage"]
XmlBody(ra, e) == [fmt |-> "xml", root |-> ra, elems |-> e]
JsonBody(d)    == [fmt |-> "json", doc |-> d]

NetworkError   == [kind |-> "exc"]                  \* requests.RequestException
Response(s, b) == [kind |-> "resp", status |-> s, body |-> b]

ResponsesOver(bodies) == {NetworkError} \cup {Response(s, b) : s \in Statuses, b \in bodies}

(* response.raise_for_status(): HTTPError for 4xx and 5xx, nothing else *)
raise_for_status(resp) == resp.status >= 400 /\ resp.status < 600

(* ElementTree.fromstring(response.content) raises ParseError unless the   *)
(* body is well-formed XML; response.json() raises unless it is JSON.      *)
WellFormed(body) == body.fmt = "xml"
IsJson(body)     == body.fmt = "json"

-----------------------------------------------------------------------------
(* PlexAPIClient.__init__ (both revisions): the configuration check *)

(* a constructor that forgets the token check *)
InitRaises_urlonly(baseurl, token) == Falsy(baseurl)

InitRaises(baseurl, token) == Falsy(baseurl) \/ Falsy(token)

NewClient(baseurl, token) == [baseurl |-> baseurl, token |-> token]

(* the absent params= or data= argument of a request *)
NoData == <<>>

(* a request sent without the headers of the client *)
RequestOf_noheader(c, method, endpoint, data) ==
    [method |-> method, base |-> c.baseurl, endpoint |-> endpoint,
     token |-> None, params |-> data, form |-> NoData,
     timeout |-> {TIMEOUT}, by |-> "client"]

(* a request that reads config_instance instead of the object *)
RequestOf_config(c, method, endpoint, data) ==
    [method |-> method, base |-> config.baseurl, endpoint |-> endpoint,
     token |-> config.token, params |-> data, form |-> NoData,
     timeout |-> {TIMEOUT}, by |-> "client"]

(* a request that sends its data form-encoded in the body (data=) *)
RequestOf_form(c, method, endpoint, data) ==
    [method |-> method, base |-> c.baseurl, endpoint |-> endpoint,
     token |-> c.token, params |-> NoData, form |-> data,
     timeout |-> {TIMEOUT}, by |-> "client"]

(* The request a client sends: url and headers come from the object, the   *)
(* data goes into the query string (params=), the body stays empty.        *)
RequestOf(c, method, endpoint, data) ==
    [method |-> method, base |-> c.baseurl, endpoint |-> endpoint,
     token |-> c.token, params |-> data, form |-> NoData,
     timeout |-> {TIMEOUT}, by |-> "client"]

fn_RequestOf(c, method, endpoint, data) ==
    [method |-> method, base |-> c.baseurl, endpoint |-> endpoint,
     token |-> c.token, params |-> data, form |-> NoData,
     timeout |-> {}, by |-> "client"]

(* a _request without response.raise_for_status() *)
_request_unchecked(method, resp) ==
    IF resp.kind = "exc" THEN Return(NoneV, <<"error">>)
    ELSE IF method = "GET"
         THEN IF WellFormed(resp.body)
              THEN Return(TreeV(resp.body.elems), <<>>)
              ELSE Return(NoneV, <<"error">>)
         ELSE Return(RespV(resp), <<>>)

(* plex/api_client.py PlexAPIClient._request: the value returned for the   *)
(* answer resp, with the records logged.                                   *)
_request(method, resp) ==
    IF resp.kind = "exc" THEN Return(NoneV, <<"error">>)
    ELSE IF raise_for_status(resp) THEN Return(NoneV, <<"error">>)
    ELSE IF method = "GET"
         THEN IF WellFormed(resp.body)
              THEN Return(TreeV(resp.body.elems), <<>>)
              ELSE Return(NoneV, <<"error">>)
         ELSE Return(RespV(resp), <<>>)

(* plex_api_client.py PlexAPIClient._get / _post / _delete *)
_get(resp) ==
    IF resp.kind = "exc" THEN Return(NoneV, <<"error">>)
    ELSE IF raise_for_status(resp) THEN Return(NoneV, <<"error">>)
    ELSE IF WellFormed(resp.body)
         THEN Return(TreeV(resp.body.elems), <<>>)
         ELSE Return(NoneV, <<"error">>)

_post(resp) ==
    IF resp.kind = "exc" THEN Return(NoneV, <<"error">>)
    ELSE IF raise_for_status(resp) THEN Return(NoneV, <<"error">>)
    ELSE Return(RespV(resp), <<>>)

_delete(resp) ==
    IF resp.kind = "exc" THEN Return(NoneV, <<"error">>)
    ELSE IF raise_for_status(resp) THEN Return(NoneV, <<"error">>)
    ELSE Return(RespV(resp), <<>>)

-----------------------------------------------------------------------------
(* The record of an operation *)

Done(op, impl, args, resps, out) ==
    [op |-> op, impl |-> impl, args |-> args, resps |-> resps,
     outcome |-> out.outcome, exc |-> out.exc, ret |-> out.ret, logs |-> out.logs]

NoOp == Done("start", "", <<>>, <<>>, Return(NoneV, <<>>))

-----------------------------------------------------------------------------
(* plex/config.py: the shared configuration instance *)

ServerIps   == {"", "h1", "https://h2"}
ServerPorts == {"", "32400"}

(* re.sub(r"^https?://", "", server_ip) *)
StripScheme(ip) ==
    CASE ip = "http://h1"  -> "h1"
      [] ip = "https://h1" -> "h1"
      [] ip = "http://h2"  -> "h2"
      [] ip = "https://h2" -> "h2"
      [] OTHER -> ip

(* f"http://{server_ip}:{server_port}" *)
FormatBaseurl(host, port) ==
    CASE host = "h1" /\ port = "32400" -> "http://h1:32400"
      [] host = "h2" /\ port = "32400" -> "http://h2:32400"
      [] OTHER -> "http://?"

set_baseurl(server_ip, server_port) ==
    /\ IF Falsy(server_ip) \/ Falsy(server_port)
       THEN /\ config' = config
            /\ last' = Done("set_baseurl", "config", <<server_ip, server_port>>, <<>>,
                            Raise("ValueError", <<>>))
       ELSE /\ config' = [config EXCEPT
                            !.baseurl = FormatBaseurl(StripScheme(server_ip), server_port)]
            /\ last' = Done("set_baseurl", "config", <<server_ip, server_port>>, <<>>,
                            Return(NoneV, <<>>))
    /\ reqs' = <<>>
    /\ UNCHANGED <<env, client, auth, arg, held>>

set_token(token) ==
    /\ config' = [config EXCEPT !.token = token]
    /\ last' = Done("token.setter", "config", <<token>>, <<>>, Return(NoneV, <<>>))
    /\ reqs' = <<>>
    /\ UNCHANGED <<env, client, auth, arg, held>>

(* The GET of _fetch_pms_version: requests.get(url, timeout=TIMEOUT), no   *)
(* headers.                                                                *)
IdentityRequest ==
    [method |-> "GET", base |-> config.baseurl, endpoint |-> <<"identity">>,
     token |-> None, params |-> NoData, form |-> NoData,
     timeout |-> {TIMEOUT}, by |-> "config"]

_fetch_pms_version(resp) ==
    IF Falsy(config.baseurl) THEN Raise("ValueError", <<>>)
    ELSE IF resp.kind = "exc" THEN Raise("RequestException", <<>>)
    ELSE IF raise_for_status(resp) THEN Raise("RequestException", <<>>)
    ELSE IF ~WellFormed(resp.body) THEN Raise("ValueError", <<>>)
    ELSE IF "version" \in DOMAIN resp.body.root
         THEN Return([t |-> "str", v |-> resp.body.root.version], <<>>)
         ELSE Return(NoneV, <<>>)

(* get_x_plex_headers -> _set_x_plex_headers: fetches the version unless   *)
(* one is cached; a ValueError is re-raised as ValueError.                 *)
get_x_plex_headers(resp) ==
    IF Truthy(config.version) THEN [out |-> Return(DictV("x-plex"), <<>>),
                                    version |-> config.version, reqs |-> <<>>]
    ELSE LET f == _fetch_pms_version(resp)
             issued == IF Falsy(config.baseurl) THEN <<>> ELSE <<IdentityRequest>>
         IN IF f.outcome = "raise"
            THEN [out |-> f, version |-> config.version, reqs |-> issued]
            ELSE [out |-> Return(DictV("x-plex"), <<>>),
                  version |-> IF f.ret.t = "str" THEN f.ret.v ELSE None,
                  reqs |-> issued]

(* plex/authentication.py PlexAuthentication.__init__ *)
PlexAuthentication_init(resp) ==
    LET h == get_x_plex_headers(resp)
    IN /\ (h.reqs = <<>> => resp = NetworkError)      \* no request: resp is not consumed
       /\ config' = [config EXCEPT !.version = h.version]
       /\ auth' = IF h.out.outcome = "return" THEN TRUE ELSE auth
       /\ reqs' = h.reqs
       /\ last' = Done("PlexAuthentication", "auth", <<>>,
                       IF h.reqs = <<>> THEN <<>> ELSE <<resp>>,
                       IF h.out.outcome = "return" THEN Return(NoneV, <<>>) ELSE h.out)
       /\ UNCHANGED <<env, client, arg, held>>

(* get_stored_token is a placeholder that returns None; store_token is a   *)
(* placeholder that does nothing (pass), so the program keeps no stored    *)
(* token between calls.                                                    *)
get_stored_token == None

SignInRequest(username, password) ==
    [method |-> "POST", base |-> SIGNIN_URL, endpoint |-> <<>>, token |-> None,
     params |-> NoData, form |-> [login |-> username, password |-> password],
     timeout |-> {TIMEOUT}, by |-> "auth"]

(* a JSON null where an object is expected *)
JsonNull == [null |-> TRUE]
IsNull(v) == "null" \in DOMAIN v

(* fetch_plex_token: wraps says whether the installed requests raises its  *)
(* own JSONDecodeError (a RequestException) from response.json().  The     *)
(* test "authToken" in user_data["user"] raises TypeError on a null user;  *)
(* only RequestException is caught.                                        *)
fetch_plex_token(resp, wraps) ==
    IF resp.kind = "exc" THEN Raise("AuthenticationError", <<"error">>)
    ELSE IF raise_for_status(resp) THEN Raise("AuthenticationError", <<"error">>)
    ELSE IF ~IsJson(resp.body)
         THEN IF wraps THEN Raise("AuthenticationError", <<"error">>)
                       ELSE Raise("JSONDecodeError", <<>>)
    ELSE IF "user" \notin DOMAIN resp.body.doc THEN Raise("AuthenticationError", <<>>)
    ELSE IF IsNull(resp.body.doc.user) THEN Raise("TypeError", <<>>)
    ELSE IF "authToken" \in DOMAIN resp.body.doc.user
         THEN Return([t |-> "str", v |-> resp.body.doc.user.authToken], <<>>)
         ELSE Raise("AuthenticationError", <<>>)

(* The calls verify_authentication makes on its collaborators, in order *)
Call(fn, a) == [fn |-> fn, arg |-> a]

DoneCalling(op, impl, args, resps, out, calls) ==
    [op |-> op, impl |-> impl, args |-> args, resps |-> resps,
     outcome |-> out.outcome, exc |-> out.exc, ret |-> out.ret, logs |-> out.logs,
     calls |-> calls]

(* token = self.fetch_plex_token(..); self.config_instance.token = token;  *)
(* self.store_token(token)                                                 *)
SignInCalls_store_first(username, token) ==
    <<Call("get_stored_token", None), Call("fetch_plex_token", username),
      Call("store_token", token), Call("token.setter", token)>>

SignInCalls(username, token) ==
    <<Call("get_stored_token", None), Call("fetch_plex_token", username),
      Call("token.setter", token), Call("store_token", token)>>

verify_authentication(username, password, resp, wraps) ==
    /\ auth
    /\ (wraps = FALSE => (resp.kind = "resp" /\ ~raise_for_status(resp) /\ ~IsJson(resp.body)))
    /\ IF Truthy(get_stored_token)
       THEN /\ config' = [config EXCEPT !.token = get_stored_token]
            /\ reqs' = <<>>
            /\ last' = DoneCalling("verify_authentication", "auth", <<username, password>>,
                            <<>>, Return(NoneV, <<"info">>),
                            <<Call("get_stored_token", None),
                              Call("token.setter", get_stored_token)>>)
       ELSE LET f == fetch_plex_token(resp, wraps)
            IN /\ reqs' = <<SignInRequest(username, password)>>
               /\ IF f.outcome = "return"
                  THEN /\ config' = [config EXCEPT !.token = f.ret.v]
                       /\ last' = DoneCalling("verify_authentication", "auth",
                                       <<username, password>>, <<resp>>,
                                       Return(NoneV, <<"info">> \o f.logs \o <<"info">>),
                                       SignInCalls(username, f.ret.v))
                  ELSE /\ config' = config
                       /\ last' = DoneCalling("verify_authentication", "auth",
                                       <<username, password>>, <<resp>>,
                                       Raise(f.exc, <<"info">> \o f.logs \o
                                             (IF f.exc = "AuthenticationError"
                                              THEN <<"error">> ELSE <<>>)),
                                       <<Call("get_stored_token", None),
                                         Call("fetch_plex_token", username)>>)
    /\ UNCHANGED <<env, client, auth, arg, held>>

-----------------------------------------------------------------------------
(* plex/api_client.py PlexAPIClient.__init__: reads config_instance *)

PlexAPIClient_init ==
    /\ IF InitRaises(config.baseurl, config.token)
       THEN /\ client' = client
            /\ last' = Done("PlexAPIClient", "pkg", <<config.baseurl, config.token>>, <<>>,
                            Raise("ValueError", <<>>))
       ELSE /\ client' = NewClient(config.baseurl, config.token)
            /\ last' = Done("PlexAPIClient", "pkg", <<config.baseurl, config.token>>, <<>>,
                            Return(NoneV, <<>>))
    /\ reqs' = <<>>
    /\ UNCHANGED <<config, env, auth, arg, held>>

(* plex_api_client.py PlexAPIClient.__init__: reads the environment *)
fn_PlexAPIClient_init ==
    /\ last' = Done("PlexAPIClient", "fn", <<env.PLEX_BASEURL, env.PLEX_TOKEN>>, <<>>,
                    IF InitRaises(env.PLEX_BASEURL, env.PLEX_TOKEN)
                    THEN Raise("ValueError", <<>>) ELSE Return(NoneV, <<>>))
    /\ reqs' = <<>>
    /\ UNCHANGED <<config, env, client, auth, arg, held>>

-----------------------------------------------------------------------------
(* Direct calls of the transport methods on a constructed client *)

EnvClient == NewClient(env.PLEX_BASEURL, env.PLEX_TOKEN)
EnvOk     == ~InitRaises(env.PLEX_BASEURL, env.PLEX_TOKEN)

call_request(method, resp) ==
    /\ client # NoClient
    /\ reqs' = <<RequestOf(client, method, <<"playlists">>, NoData)>>
    /\ last' = Done("_request", "pkg", <<method>>, <<resp>>, _request(method, resp))
    /\ UNCHANGED <<config, env, client, auth, arg, held>>

call_get(resp) ==
    /\ EnvOk
    /\ reqs' = <<fn_RequestOf(EnvClient, "GET", <<"playlists">>, NoData)>>
    /\ last' = Done("_get", "fn", <<"GET">>, <<resp>>, _get(resp))
    /\ UNCHANGED <<config, env, client, auth, arg, held>>

call_post(resp) ==
    /\ EnvOk
    /\ reqs' = <<fn_RequestOf(EnvClient, "POST", <<"playlists">>, NoData)>>
    /\ last' = Done("_post", "fn", <<"POST">>, <<resp>>, _post(resp))
    /\ UNCHANGED <<config, env, client, auth, arg, held>>

call_delete(resp) ==
    /\ EnvOk
    /\ reqs' = <<fn_RequestOf(EnvClient, "DELETE", <<"playlists">>, NoData)>>
    /\ last' = Done("_delete", "fn", <<"DELETE">>, <<resp>>, _delete(resp))
    /\ UNCHANGED <<config, env, client, auth, arg, held>>

-----------------------------------------------------------------------------
(* create_playlist *)

(* ",".join([f"library://{uri}" for uri in item_uris]): the joined parts *)
uri_param(item_uris) == [i \in 1..Len(item_uris) |-> <<"library://", item_uris[i]>>]

PlaylistData(title, media_type, item_uris) ==
    [type |-> media_type, title |-> title, uri |-> uri_param(item_uris)]

(* response.json() *)
json(r) == IF IsJson(r.body) THEN Return(JsonV(r.body.doc), <<>>)
                             ELSE Raise("JSONDecodeError", <<>>)

(* the tail of create_playlist, after the POST returned r (an outcome) *)
Created(r) ==
    IF r.ret.t = "response" /\ r.ret.status = 201
    THEN LET j == json(r.ret)
         IN [j EXCEPT !.logs = r.logs \o <<"info">>]
    ELSE Return(NoneV, r.logs \o <<"error">>)

create_playlist(title, media_type, item_uris, resp) ==
    /\ client # NoClient
    /\ reqs' = <<RequestOf(client, "POST", <<"playlists">>,
                           PlaylistData(title, media_type, item_uris))>>
    /\ last' = Done("create_playlist", "pkg", <<title, media_type, item_uris>>, <<resp>>,
                    Created(_request("POST", resp)))
    /\ UNCHANGED <<config, env, client, auth, arg, held>>

fn_create_playlist(title, media_type, item_uris, resp) ==
    /\ IF ~EnvOk
       THEN /\ resp = NetworkError
            /\ reqs' = <<>>
            /\ last' = Done("create_playlist", "fn", <<title, media_type, item_uris>>, <<>>,
                            Raise("ValueError", <<>>))
       ELSE /\ reqs' = <<fn_RequestOf(EnvClient, "POST", <<"playlists">>,
                                      PlaylistData(title, media_type, item_uris))>>
            /\ last' = Done("create_playlist", "fn", <<title, media_type, item_uris>>,
                            <<resp>>, Created(_post(resp)))
    /\ UNCHANGED <<config, env, client, auth, arg, held>>

-----------------------------------------------------------------------------
(* delete_playlist *)

(* a success test that accepts whatever raise_for_status lets through *)
Deleted_any(r) == r.t = "response"

(* response is not None and response.status_code in [200, 204] *)
Deleted(r) == r.t = "response" /\ r.status \in {200, 204}

delete_playlist(playlist_ratingKey, resp) ==
    /\ client # NoClient
    /\ reqs' = <<RequestOf(client, "DELETE", <<"playlists", playlist_ratingKey>>, NoData)>>
    /\ LET r == _request("DELETE", resp)
       IN last' = Done("delete_playlist", "pkg", <<playlist_ratingKey>>, <<resp>>,
                       IF Deleted(r.ret)
                       THEN Return(BoolV(TRUE), r.logs \o <<"info">>)
                       ELSE Return(BoolV(FALSE), r.logs \o <<"error">>))
    /\ UNCHANGED <<config, env, client, auth, arg, held>>

(* the module-level delete_playlist calls requests.delete itself, without  *)
(* raise_for_status, inside its own try/except                             *)
fn_Deleted(resp) ==
    IF resp.kind = "exc" THEN Return(BoolV(FALSE), <<"error">>)
    ELSE IF resp.status \in {200, 204}
         THEN Return(BoolV(TRUE), <<"info">>)
         ELSE Return(BoolV(FALSE), <<"error">>)

fn_delete_playlist(playlist_ratingKey, resp) ==
    /\ IF ~EnvOk
       THEN /\ resp = NetworkError
            /\ reqs' = <<>>
            /\ last' = Done("delete_playlist", "fn", <<playlist_ratingKey>>, <<>>,
                            Raise("ValueError", <<>>))
       ELSE /\ reqs' = <<fn_RequestOf(EnvClient, "DELETE",
                                      <<"playlists", playlist_ratingKey>>, NoData)>>
            /\ last' = Done("delete_playlist", "fn", <<playlist_ratingKey>>, <<resp>>,
                            fn_Deleted(resp))
    /\ UNCHANGED <<config, env, client, auth, arg, held>>

-----------------------------------------------------------------------------
(* remove_playlist_items *)

(* The loop over playlistItemIDs with a client c whose _delete answers     *)
(* resps[i] to the i-th request: the outcome and the number of requests.   *)
RECURSIVE RemoveLoop(_, _, _)
RemoveLoop(ids, resps, i) ==
    IF i > Len(ids) THEN [out |-> Return(BoolV(TRUE), <<>>), n |-> Len(ids)]
    ELSE LET r == _delete(resps[i])
         IN IF Deleted(r.ret)
            THEN LET rest == RemoveLoop(ids, resps, i + 1)
                 IN [rest EXCEPT !.out.logs = r.logs \o <<"info">> \o @]
            ELSE [out |-> Return(BoolV(FALSE), r.logs \o <<"error">>), n |-> i]

ItemEndpoint(playlist_ratingKey, playlistItemID) ==
    <<"playlists", playlist_ratingKey, "items", playlistItemID>>

fn_remove_playlist_items(playlist_ratingKey, playlistItemIDs, resps) ==
    /\ Len(resps) <= Len(playlistItemIDs)
    /\ IF ~EnvOk
       THEN /\ resps = <<>>
            /\ reqs' = <<>>
            /\ last' = Done("remove_playlist_items", "fn",
                            <<playlist_ratingKey, playlistItemIDs>>, <<>>,
                            Raise("ValueError", <<>>))
       ELSE LET padded == resps \o [i \in 1..(Len(playlistItemIDs) - Len(resps)) |->
                                       NetworkError]
                l == RemoveLoop(playlistItemIDs, padded, 1)
            IN /\ l.n = Len(resps)          \* resps are the answers consumed
               /\ reqs' = [i \in 1..l.n |->
                             fn_RequestOf(EnvClient, "DELETE",
                                 ItemEndpoint(playlist_ratingKey, playlistItemIDs[i]),
                                 NoData)]
               /\ last' = Done("remove_playlist_items", "fn",
                               <<playlist_ratingKey, playlistItemIDs>>, resps, l.out)
    /\ UNCHANGED <<config, env, client, auth, arg, held>>

(* The method builds a second client from config_instance and calls its    *)
(* _delete; class PlexAPIClient of plex/api_client.py defines _request but *)
(* no _delete, so the first iteration raises AttributeError before any     *)
(* request is sent.                                                        *)
remove_playlist_items(playlist_ratingKey, playlistItemIDs) ==
    /\ client # NoClient
    /\ reqs' = <<>>
    /\ last' = Done("remove_playlist_items", "pkg",
                    <<playlist_ratingKey, playlistItemIDs>>, <<>>,
                    IF InitRaises(config.baseurl, config.token)
                    THEN Raise("ValueError", <<>>)
                    ELSE IF playlistItemIDs = <<>> THEN Return(BoolV(TRUE), <<>>)
                    ELSE Raise("AttributeError", <<>>))
    /\ UNCHANGED <<config, env, client, auth, arg, held>>

-----------------------------------------------------------------------------
(* PlexPlaylistParser (the same code in both revisions) *)

(* a filter that forgets playlistType *)
extract_playlists_partial(root) ==
    IF root.t = "None" THEN <<>>
    ELSE LET kept == SelectSeq(findall(root.elems, "Playlist"),
                        LAMBDA p : /\ Truthy(Get(p, "ratingKey"))
                                   /\ Truthy(Get(p, "title")))
         IN [i \in 1..Len(kept) |->
               <<Get(kept[i], "ratingKey"), Get(kept[i], "title"),
                 Get(kept[i], "playlistType")>>]

(* root is the value a GET returned: NoneV or TreeV(children of the root) *)
extract_playlists(root) ==
    IF root.t = "None" THEN <<>>
    ELSE LET kept == SelectSeq(findall(root.elems, "Playlist"),
                        LAMBDA p : /\ Truthy(Get(p, "ratingKey"))
                                   /\ Truthy(Get(p, "title"))
                                   /\ Truthy(Get(p, "playlistType")))
         IN [i \in 1..Len(kept) |->
               <<Get(kept[i], "ratingKey"), Get(kept[i], "title"),
                 Get(kept[i], "playlistType")>>]

_safe_get(element, attribute) ==
    IF element # NoElem THEN Get(element, attribute) ELSE None

_extract_audio_data(track) ==
    [key |-> _safe_get(track, "key"),
     title |-> _safe_get(track, "title"),
     duration |-> _safe_get(track, "duration"),
     index |-> _safe_get(track, "index"),
     type |-> _safe_get(track, "type"),
     parentTitle |-> _safe_get(track, "parentTitle"),
     grandparentTitle |-> _safe_get(track, "grandparentTitle"),
     grandparentThumb |-> _safe_get(track, "grandparentThumb"),
     playlistItemID |-> _safe_get(track, "playlistItemID")]

(* a Video whose type is neither episode nor movie falls off the end of    *)
(* the function: the entry is None                                         *)
_extract_video_data(video) ==
    LET item_type == _safe_get(video, "type")
    IN IF item_type = "episode"
       THEN [key |-> _safe_get(video, "key"),
             title |-> _safe_get(video, "title"),
             duration |-> _safe_get(video, "duration"),
             index |-> _safe_get(video, "index"),
             type |-> item_type,
             parentTitle |-> _safe_get(video, "parentTitle"),
             grandparentTitle |-> _safe_get(video, "grandparentTitle"),
             grandparentThumb |-> _safe_get(video, "grandparentThumb"),
             playlistItemID |-> _safe_get(video, "playlistItemID")]
       ELSE IF item_type = "movie"
       THEN [key |-> _safe_get(video, "key"),
             title |-> _safe_get(video, "title"),
             type |-> item_type,
             duration |-> _safe_get(video, "duration"),
             year |-> _safe_get(video, "year"),
             thumb |-> _safe_get(video, "thumb"),
             playlistItemID |-> _safe_get(video, "playlistItemID")]
       ELSE NoneV

_extract_photo_data(photo) ==
    [key |-> _safe_get(photo, "key"),
     title |-> _safe_get(photo, "title"),
     type |-> _safe_get(photo, "type"),
     thumb |-> _safe_get(photo, "thumb"),
     playlistItemID |-> _safe_get(photo, "playlistItemID"),
     file |-> IF find(photo.kids, "Part") # NoElem
              THEN _safe_get(find(photo.kids, "Part"), "file")
              ELSE None]

(* a dispatch that treats every unknown playlist type as audio *)
extract_playlist_items_default(root, playlist_type) ==
    IF root.t = "None" THEN <<>>
    ELSE IF playlist_type = "video"
         THEN LET f == findall(root.elems, "Video")
              IN [i \in 1..Len(f) |-> _extract_video_data(f[i])]
    ELSE IF playlist_type = "photo"
         THEN LET f == findall(root.elems, "Photo")
              IN [i \in 1..Len(f) |-> _extract_photo_data(f[i])]
    ELSE LET f == findall(root.elems, "Track")
         IN [i \in 1..Len(f) |-> _extract_audio_data(f[i])]

extract_playlist_items(root, playlist_type) ==
    IF root.t = "None" THEN <<>>
    ELSE IF playlist_type = "audio"
         THEN LET f == findall(root.elems, "Track")
              IN [i \in 1..Len(f) |-> _extract_audio_data(f[i])]
    ELSE IF playlist_type = "video"
         THEN LET f == findall(root.elems, "Video")
              IN [i \in 1..Len(f) |-> _extract_video_data(f[i])]
    ELSE IF playlist_type = "photo"
         THEN LET f == findall(root.elems, "Photo")
              IN [i \in 1..Len(f) |-> _extract_photo_data(f[i])]
    ELSE <<>>

-----------------------------------------------------------------------------
(* parse_playlist_data: the items are the entries extract_playlist_items   *)
(* returned, each a dict of Optional[str] or None.                         *)

(* item.get(k) of a dict *)
ItemGet(item, k) == IF k \in DOMAIN item THEN item[k] ELSE None

(* str(v) inside an f-string *)
PyStr(v) == IF v = None THEN "None" ELSE v

(* f"{plex_base_url}/{v}" *)
UrlOf(plex_base_url, v) == [base |-> PyStr(plex_base_url), path |-> PyStr(v)]

(* the decimal literals of the model and their integer values *)
DecimalValue == ("0" :> 0) @@ ("1" :> 1) @@ ("3" :> 3) @@ ("03" :> 3)

(* int(item.get("index") or 0): 0 for a missing or empty index, the value  *)
(* of a decimal literal, ValueError for every other string                 *)
int(v) ==
    IF Falsy(v) THEN [ok |-> TRUE, n |-> 0]
    ELSE IF v \in DOMAIN DecimalValue THEN [ok |-> TRUE, n |-> DecimalValue[v]]
    ELSE [ok |-> FALSE, n |-> 0]

IntV(n)    == [t |-> "int", n |-> n]
OptStrV(s) == [t |-> "optstr", s |-> s]

(* (title, int index, playlistItemID) of plex/api_client.py and            *)
(* [title, index, playlistItemID] of plex_api_client.py                    *)
Tuple3(title, index, id) ==
    [seq |-> "tuple", title |-> title, index |-> index, playlistItemID |-> id]
List3(title, index, id) ==
    [seq |-> "list", title |-> title, index |-> index, playlistItemID |-> id]

EmptyDict == <<>>

DictGet(d, k, default) == IF k \in DOMAIN d THEN d[k] ELSE default
DictPut(d, k, v) == [x \in DOMAIN d \cup {k} |-> IF x = k THEN v ELSE d[x]]

(* sorted_data[kind].setdefault(a, {}).setdefault(b, []).append(entry) *)
AppendEntry(sorted_data, kind, a, b, entry) ==
    LET outer == DictGet(sorted_data[kind], a, EmptyDict)
        inner == DictGet(outer, b, <<>>)
    IN [sorted_data EXCEPT
          ![kind] = DictPut(sorted_data[kind], a, DictPut(outer, b, Append(inner, entry)))]

EmptySorted ==
    [tracks |-> EmptyDict, photos |-> EmptyDict, episodes |-> EmptyDict,
     movies |-> EmptyDict]

(* the effect of one helper or branch: the new sorted_data, the exception  *)
(* it raised ("" for none) and the records it logged                       *)
Step(sorted_data, exc, logs) == [data |-> sorted_data, exc |-> exc, logs |-> logs]

(* a helper that inserts the track whatever its artist and album *)
parse_track_item_unchecked(item, sorted_data) ==
    LET artist == ItemGet(item, "grandparentTitle")
        album  == ItemGet(item, "parentTitle")
        index  == int(ItemGet(item, "index"))
    IN IF ~index.ok THEN Step(sorted_data, "ValueError", <<>>)
       ELSE Step(AppendEntry(sorted_data, "tracks", artist, album,
                    Tuple3(ItemGet(item, "title"), IntV(index.n),
                           ItemGet(item, "playlistItemID"))), "", <<>>)

parse_track_item(item, sorted_data) ==
    LET artist == ItemGet(item, "grandparentTitle")
        album  == ItemGet(item, "parentTitle")
        index  == int(ItemGet(item, "index"))
    IN IF ~index.ok THEN Step(sorted_data, "ValueError", <<>>)
       ELSE IF Truthy(artist) /\ Truthy(album)
       THEN Step(AppendEntry(sorted_data, "tracks", artist, album,
                    Tuple3(ItemGet(item, "title"), IntV(index.n),
                           ItemGet(item, "playlistItemID"))), "", <<>>)
       ELSE Step(sorted_data, "", <<>>)

(* a helper that keeps the first photo filed under a title *)
parse_photo_item_first(item, sorted_data, plex_base_url) ==
    LET title == ItemGet(item, "title")
    IN IF Truthy(title) /\ title \notin DOMAIN sorted_data.photos
       THEN Step([sorted_data EXCEPT !.photos = DictPut(@, title,
                    [file |-> UrlOf(plex_base_url, ItemGet(item, "file")),
                     thumb |-> UrlOf(plex_base_url, ItemGet(item, "thumb")),
                     playlistItemID |-> ItemGet(item, "playlistItemID")])], "", <<>>)
       ELSE Step(sorted_data, "", <<>>)

parse_photo_item(item, sorted_data, plex_base_url) ==
    LET title == ItemGet(item, "title")
    IN IF Truthy(title)
       THEN Step([sorted_data EXCEPT !.photos = DictPut(@, title,
                    [file |-> UrlOf(plex_base_url, ItemGet(item, "file")),
                     thumb |-> UrlOf(plex_base_url, ItemGet(item, "thumb")),
                     playlistItemID |-> ItemGet(item, "playlistItemID")])], "", <<>>)
       ELSE Step(sorted_data, "", <<>>)

(* a helper that creates the show and the season before it converts the    *)
(* index                                                                   *)
parse_episode_item_late(item, sorted_data) ==
    LET show   == ItemGet(item, "grandparentTitle")
        season == ItemGet(item, "parentTitle")
        index  == int(ItemGet(item, "index"))
        outer  == DictGet(sorted_data.episodes, show, EmptyDict)
        inner  == DictGet(outer, season, <<>>)
    IN IF Truthy(show) /\ Truthy(season)
       THEN IF ~index.ok
            THEN Step([sorted_data EXCEPT !.episodes =
                          DictPut(@, show, DictPut(outer, season, inner))],
                      "ValueError", <<>>)
            ELSE Step(AppendEntry(sorted_data, "episodes", show, season,
                         Tuple3(ItemGet(item, "title"), IntV(index.n),
                                ItemGet(item, "playlistItemID"))), "", <<>>)
       ELSE Step(sorted_data, IF index.ok THEN "" ELSE "ValueError", <<>>)

parse_episode_item(item, sorted_data) ==
    LET show   == ItemGet(item, "grandparentTitle")
        season == ItemGet(item, "parentTitle")
        index  == int(ItemGet(item, "index"))
    IN IF ~index.ok THEN Step(sorted_data, "ValueError", <<>>)
       ELSE IF Truthy(show) /\ Truthy(season)
       THEN Step(AppendEntry(sorted_data, "episodes", show, season,
                    Tuple3(ItemGet(item, "title"), IntV(index.n),
                           ItemGet(item, "playlistItemID"))), "", <<>>)
       ELSE Step(sorted_data, "", <<>>)

parse_movie_item(item, sorted_data) ==
    LET title == ItemGet(item, "title")
    IN IF Truthy(title)
       THEN Step([sorted_data EXCEPT !.movies = DictPut(@, title,
                    [year |-> ItemGet(item, "year"),
                     duration |-> ItemGet(item, "duration"),
                     playlistItemID |-> ItemGet(item, "playlistItemID")])], "", <<>>)
       ELSE Step(sorted_data, "", <<>>)

(* a dispatch that hands photo items to the movie helper *)
ParseItem_swapped(item, sorted_data, plex_base_url) ==
    IF item = NoneV THEN Step(sorted_data, "AttributeError", <<>>)
    ELSE LET item_type == ItemGet(item, "type")
         IN IF item_type = "track" THEN parse_track_item(item, sorted_data)
            ELSE IF item_type = "photo" THEN parse_movie_item(item, sorted_data)
            ELSE IF item_type = "episode" THEN parse_episode_item(item, sorted_data)
            ELSE IF item_type = "movie" THEN parse_movie_item(item, sorted_data)
            ELSE Step(sorted_data, "", <<>>)

(* plex/api_client.py: the body of the try of one iteration; None.get      *)
(* raises AttributeError                                                    *)
ParseItem(item, sorted_data, plex_base_url) ==
    IF item = NoneV THEN Step(sorted_data, "AttributeError", <<>>)
    ELSE LET item_type == ItemGet(item, "type")
         IN IF item_type = "track" THEN parse_track_item(item, sorted_data)
            ELSE IF item_type = "photo"
                 THEN parse_photo_item(item, sorted_data, plex_base_url)
            ELSE IF item_type = "episode" THEN parse_episode_item(item, sorted_data)
            ELSE IF item_type = "movie" THEN parse_movie_item(item, sorted_data)
            ELSE Step(sorted_data, "", <<>>)

(* plex_api_client.py: the body of the try of one iteration.  `not track`  *)
(* and `not episode` are false for a list of three entries.                *)
fn_ParseItem(item, sorted_data, plex_base_url) ==
    IF item = NoneV THEN Step(sorted_data, "AttributeError", <<>>)
    ELSE LET item_type == ItemGet(item, "type")
             a == ItemGet(item, "grandparentTitle")
             b == ItemGet(item, "parentTitle")
             title == ItemGet(item, "title")
             entry == List3(title, OptStrV(ItemGet(item, "index")),
                            ItemGet(item, "playlistItemID"))
         IN IF item_type = "track"
            THEN IF Falsy(a) \/ Falsy(b)
                 THEN Step(sorted_data, "", <<"warning">>)
                 ELSE Step(AppendEntry(sorted_data, "tracks", a, b, entry), "", <<>>)
            ELSE IF item_type = "photo"
            THEN IF Falsy(title)
                 THEN Step(sorted_data, "", <<"warning">>)
                 ELSE parse_photo_item(item, sorted_data, plex_base_url)
            ELSE IF item_type = "episode"
            THEN IF Falsy(a) \/ Falsy(b)
                 THEN Step(sorted_data, "", <<"warning">>)
                 ELSE Step(AppendEntry(sorted_data, "episodes", a, b, entry), "", <<>>)
            ELSE IF item_type = "movie"
            THEN IF Falsy(title)
                 THEN Step(sorted_data, "", <<"warning">>)
                 ELSE parse_movie_item(item, sorted_data)
            ELSE Step(sorted_data, "", <<"warning">>)

(* for item in data: try: ... except Exception: logger.error(...) *)
RECURSIVE ParseLoop(_, _, _, _, _)
ParseLoop(data, sorted_data, logs, plex_base_url, impl) ==
    IF data = <<>> THEN Return(DictV(sorted_data), logs)
    ELSE LET s == IF impl = "pkg"
                  THEN ParseItem(Head(data), sorted_data, plex_base_url)
                  ELSE fn_ParseItem(Head(data), sorted_data, plex_base_url)
         IN ParseLoop(Tail(data), s.data,
                      logs \o s.logs \o (IF s.exc # "" THEN <<"error">> ELSE <<>>),
                      plex_base_url, impl)

(* a result that keeps only the keys that received an entry *)
ParsePlaylistData_lazy(data, plex_base_url) ==
    LET r == ParseLoop(data, EmptySorted, <<>>, plex_base_url, "pkg")
    IN Return(DictV([k \in {x \in DOMAIN r.ret.v : r.ret.v[x] # EmptyDict} |->
                        r.ret.v[k]]), r.logs)

(* the value of PlexAPIClient.parse_playlist_data on a client of base url  *)
(* plex_base_url, and of the module-level parse_playlist_data              *)
ParsePlaylistData(data, plex_base_url) ==
    ParseLoop(data, EmptySorted, <<>>, plex_base_url, "pkg")

fn_ParsePlaylistData(data, plex_base_url) ==
    ParseLoop(data, EmptySorted, <<>>, plex_base_url, "fn")

-----------------------------------------------------------------------------
(* get_playlists *)

PlaylistRecord(p) ==
    [ratingKey |-> Get(p, "ratingKey"), title |-> Get(p, "title"),
     playlistType |-> Get(p, "playlistType")]

(* the tail of get_playlists, after the GET of /playlists returned r *)
PlaylistsByType(r) ==
    IF r.ret.t = "None" THEN Return(DictV(<<>>), r.logs)
    ELSE LET ps == findall(r.ret.elems, "Playlist")
             keys == {Get(ps[i], "playlistType") : i \in 1..Len(ps)}
             recs == [i \in 1..Len(ps) |-> PlaylistRecord(ps[i])]
         IN Return(DictV([k \in keys |->
                            SelectSeq(recs, LAMBDA d : d.playlistType = k)]), r.logs)

get_playlists(resp) ==
    /\ client # NoClient
    /\ reqs' = <<RequestOf(client, "GET", <<"playlists">>, NoData)>>
    /\ last' = Done("get_playlists", "pkg", <<>>, <<resp>>,
                    PlaylistsByType(_request("GET", resp)))
    /\ UNCHANGED <<config, env, client, auth, arg, held>>

fn_get_playlists(resp) ==
    /\ IF ~EnvOk
       THEN /\ resp = NetworkError
            /\ reqs' = <<>>
            /\ last' = Done("get_playlists", "fn", <<>>, <<>>, Raise("ValueError", <<>>))
       ELSE /\ reqs' = <<fn_RequestOf(EnvClient, "GET", <<"playlists">>, NoData)>>
            /\ last' = Done("get_playlists", "fn", <<>>, <<resp>>,
                            PlaylistsByType(_get(resp)))
    /\ UNCHANGED <<config, env, client, auth, arg, held>>

-----------------------------------------------------------------------------
(* get_playlist_ratingKey *)

(* next((item for item in playlists if item[1] == playlist_title), None) *)
RECURSIVE FirstTitled(_, _)
FirstTitled(playlists, playlist_title) ==
    IF playlists = <<>> THEN <<>>
    ELSE IF Head(playlists)[2] = playlist_title THEN Head(playlists)
    ELSE FirstTitled(Tail(playlists), playlist_title)

(* a lookup among all Playlist elements, complete or not *)
RatingKeyOf_unfiltered(r, playlist_title) ==
    IF r.ret.t = "None" THEN Return(NoneV, r.logs)
    ELSE LET ps == SelectSeq(findall(r.ret.elems, "Playlist"),
                             LAMBDA p : Get(p, "title") = playlist_title)
         IN IF ps # <<>>
            THEN Return([t |-> "str", v |-> Get(ps[1], "ratingKey")], r.logs)
            ELSE Return(NoneV, r.logs \o <<"error">>)

(* the tail of get_playlist_ratingKey, after the GET returned r *)
RatingKeyOf(r, playlist_title) ==
    IF r.ret.t = "None" THEN Return(NoneV, r.logs)
    ELSE LET result == FirstTitled(extract_playlists(r.ret), playlist_title)
         IN IF result # <<>>
            THEN Return([t |-> "str", v |-> result[1]], r.logs)
            ELSE Return(NoneV, r.logs \o <<"error">>)

get_playlist_ratingKey(playlist_title, resp) ==
    /\ client # NoClient
    /\ reqs' = <<RequestOf(client, "GET", <<"playlists">>, NoData)>>
    /\ last' = Done("get_playlist_ratingKey", "pkg", <<playlist_title>>, <<resp>>,
                    RatingKeyOf(_request("GET", resp), playlist_title))
    /\ UNCHANGED <<config, env, client, auth, arg, held>>

fn_get_playlist_ratingKey(playlist_title, resp) ==
    /\ IF ~EnvOk
       THEN /\ resp = NetworkError
            /\ reqs' = <<>>
            /\ last' = Done("get_playlist_ratingKey", "fn", <<playlist_title>>, <<>>,
                            Raise("ValueError", <<>>))
       ELSE /\ reqs' = <<fn_RequestOf(EnvClient, "GET", <<"playlists">>, NoData)>>
            /\ last' = Done("get_playlist_ratingKey", "fn", <<playlist_title>>, <<resp>>,
                            RatingKeyOf(_get(resp), playlist_title))
    /\ UNCHANGED <<config, env, client, auth, arg, held>>

-----------------------------------------------------------------------------
(* get_playlist_items: resps are the answers to the requests it sends *)

(* a get_playlist_items that fetches the items before it looks at the      *)
(* metadata                                                                *)
PlaylistItems_eager(resps) ==
    LET m == _request("GET", resps[1])
        i == _request("GET", resps[2])
        playlist_element == IF m.ret.t = "tree" /\ m.ret.elems # <<>>
                            THEN find(m.ret.elems, "Playlist") ELSE NoElem
    IN IF playlist_element = NoElem
       THEN [out |-> Return(ListV(<<>>), m.logs \o i.logs \o <<"error">>), n |-> 2]
       ELSE [out |-> Return(ListV(extract_playlist_items(
                                     i.ret, Get(playlist_element, "playlistType"))),
                            m.logs \o i.logs),
             n |-> 2]

(* plex/api_client.py: metadata_root.find(".//Playlist") if metadata_root  *)
(* else None; an Element is true when it has children.                     *)
PlaylistItems(resps) ==
    LET m == _request("GET", resps[1])
        playlist_element == IF m.ret.t = "tree" /\ m.ret.elems # <<>>
                            THEN find(m.ret.elems, "Playlist") ELSE NoElem
    IN IF playlist_element = NoElem
       THEN [out |-> Return(ListV(<<>>), m.logs \o <<"error">>), n |-> 1]
       ELSE LET i == _request("GET", resps[2])
            IN [out |-> Return(ListV(extract_playlist_items(
                                        i.ret, Get(playlist_element, "playlistType"))),
                               m.logs \o i.logs),
                n |-> 2]

get_playlist_items(playlist_ratingKey, resps) ==
    /\ client # NoClient
    /\ Len(resps) \in {1, 2}
    /\ LET g == PlaylistItems(resps \o <<NetworkError>>)
       IN /\ g.n = Len(resps)
          /\ reqs' = SubSeq(<<RequestOf(client, "GET",
                                 <<"playlists", playlist_ratingKey>>, NoData),
                              RequestOf(client, "GET",
                                 <<"playlists", playlist_ratingKey, "items">>, NoData)>>,
                            1, g.n)
          /\ last' = Done("get_playlist_items", "pkg", <<playlist_ratingKey>>, resps, g.out)
    /\ UNCHANGED <<config, env, client, auth, arg, held>>

(* plex_api_client.py: metadata_root.find(...) on whatever _get returned,  *)
(* and raise ValueError when there is no Playlist element.                 *)
fn_PlaylistItems(resps) ==
    LET m == _get(resps[1])
    IN IF m.ret.t = "None"
       THEN [out |-> Raise("AttributeError", m.logs), n |-> 1]
       ELSE IF find(m.ret.elems, "Playlist") = NoElem
       THEN [out |-> Raise("ValueError", m.logs), n |-> 1]
       ELSE LET i == _get(resps[2])
            IN [out |-> Return(ListV(extract_playlist_items(
                                   i.ret, Get(find(m.ret.elems, "Playlist"),
                                              "playlistType"))),
                               m.logs \o i.logs),
                n |-> 2]

fn_get_playlist_items(playlist_ratingKey, resps) ==
    /\ Len(resps) \in {0, 1, 2}
    /\ IF playlist_ratingKey = None
       THEN /\ resps = <<>>
            /\ reqs' = <<>>
            /\ last' = Done("get_playlist_items", "fn", <<playlist_ratingKey>>, <<>>,
                            Return(NoneV, <<"error">>))
       ELSE IF ~EnvOk
       THEN /\ resps = <<>>
            /\ reqs' = <<>>
            /\ last' = Done("get_playlist_items", "fn", <<playlist_ratingKey>>, <<>>,
                            Raise("ValueError", <<>>))
       ELSE /\ resps # <<>>
            /\ LET g == fn_PlaylistItems(resps \o <<NetworkError>>)
               IN /\ g.n = Len(resps)
                  /\ reqs' = SubSeq(<<fn_RequestOf(EnvClient, "GET",
                                         <<"playlists", playlist_ratingKey>>, NoData),
                                      fn_RequestOf(EnvClient, "GET",
                                         <<"playlists", playlist_ratingKey, "items">>,
                                         NoData)>>,
                                    1, g.n)
                  /\ last' = Done("get_playlist_items", "fn", <<playlist_ratingKey>>,
                                  resps, g.out)
    /\ UNCHANGED <<config, env, client, auth, arg, held>>

-----------------------------------------------------------------------------
(* Documents and answers the environment can produce *)

RatingKeys == {"k1", "k2"}
ItemIds    == {"i1", "i2"}
Titles     == {"A", "B"}

PL(rk, title, type) ==
    MkElem("Playlist", [ratingKey |-> rk, title |-> title, playlistType |-> type])

Directory == MkElem("Directory", [ratingKey |-> "k1", title |-> "A", playlistType |-> "audio"])

Track(title, id) ==
    MkElem("Track", [type |-> "track", title |-> title, index |-> "3", parentTitle |-> "B",
                     grandparentTitle |-> "A", playlistItemID |-> id])

Photo(title, id) ==
    MkElemK("Photo", [type |-> "photo", title |-> title, playlistItemID |-> id],
            <<MkElem("Media", <<>>), MkElem("Part", [file |-> "f.jpg"])>>)

ListingDocs ==
    {<<>>, <<Directory>>, <<PL("k1", "A", "audio")>>,
     <<PL("k1", "A", "audio"), PL("k2", "A", "video")>>,
     <<PL("k2", "B", "photo"), PL("k1", "A", "audio")>>,
     <<PL("k2", None, "audio"), PL("k1", "A", "")>>,
     <<PL("k1", "A", ""), PL("k2", "A", "video")>>}

MetadataDocs ==
    {<<>>, <<Directory>>, <<PL("k1", "A", "audio")>>, <<PL("k1", "A", None)>>}

ItemDocs ==
    {<<>>, <<Track("T", "i1"), Track("U", "i2")>>, <<Photo("P", "i1")>>}

XmlBodies(docs) == {Garbage} \cup {XmlBody(<<>>, d) : d \in docs}

ListingResponses  == ResponsesOver(XmlBodies(ListingDocs))
MetadataResponses == ResponsesOver(XmlBodies(MetadataDocs))
ItemResponses     == ResponsesOver(XmlBodies(ItemDocs))
PostResponses     == ResponsesOver({Garbage, XmlBody(<<>>, <<>>), JsonBody([ratingKey |-> "k1"])})
DeleteResponses   == ResponsesOver({Garbage})

IdentityResponses ==
    {NetworkError, Response(500, Garbage), Response(200, Garbage),
     Response(200, XmlBody(<<>>, <<>>)), Response(200, XmlBody([version |-> "1.40"], <<>>))}

SignInResponses ==
    {NetworkError, Response(404, Garbage), Response(201, Garbage),
     Response(201, JsonBody(<<>>)), Response(201, JsonBody([user |-> <<>>])),
     Response(201, JsonBody([user |-> JsonNull])),
     Response(300, JsonBody([user |-> [authToken |-> "t1"]]))}
    \cup {Response(201, JsonBody([user |-> [authToken |-> t]])) : t \in Tokens}

(* the answers used where the configuration is what varies *)
FewGets    == {NetworkError, Response(404, Garbage),
               Response(200, XmlBody(<<>>, <<PL("k1", "A", "audio")>>))}
FewItems   == {NetworkError, Response(200, XmlBody(<<>>, <<Track("T", "i1")>>))}
FewPosts   == {NetworkError, Response(201, JsonBody([ratingKey |-> "k1"]))}
FewDeletes == {NetworkError, Response(204, Garbage)}

Envs ==
    {[PLEX_BASEURL |-> "http://h1:32400", PLEX_TOKEN |-> "t1"],
     [PLEX_BASEURL |-> "http://h1:32400", PLEX_TOKEN |-> ""],
     [PLEX_BASEURL |-> None, PLEX_TOKEN |-> "t1"]}

NoArg == NoneV

-----------------------------------------------------------------------------
(* The operations of the two clients over given sets of answers *)

Reads(listing, metadata, items, keys) ==
    \/ \E resp \in listing : call_request("GET", resp)
    \/ \E resp \in listing : call_get(resp)
    \/ \E resp \in listing : get_playlists(resp)
    \/ \E resp \in listing : fn_get_playlists(resp)
    \/ \E t \in Titles, resp \in listing : get_playlist_ratingKey(t, resp)
    \/ \E t \in Titles, resp \in listing : fn_get_playlist_ratingKey(t, resp)
    \/ \E k \in keys, m \in metadata :
          \/ get_playlist_items(k, <<m>>)
          \/ \E i \in items : get_playlist_items(k, <<m, i>>)
    \/ \E k \in keys \cup {None} :
          \/ fn_get_playlist_items(k, <<>>)
          \/ \E m \in metadata :
                \/ fn_get_playlist_items(k, <<m>>)
                \/ \E i \in items : fn_get_playlist_items(k, <<m, i>>)

Writes(posts, deletes, keys, maxIds) ==
    \/ \E resp \in posts : call_request("POST", resp)
    \/ \E resp \in deletes : call_request("DELETE", resp)
    \/ \E resp \in posts : call_post(resp)
    \/ \E resp \in deletes : call_delete(resp)
    \/ \E uris \in SeqsUpTo(keys, maxIds), resp \in posts :
          create_playlist("A", "audio", uris, resp)
    \/ \E uris \in SeqsUpTo(keys, maxIds), resp \in posts \cup {NetworkError} :
          fn_create_playlist("A", "audio", uris, resp)
    \/ \E k \in keys, resp \in deletes : delete_playlist(k, resp)
    \/ \E k \in keys, resp \in deletes \cup {NetworkError} : fn_delete_playlist(k, resp)
    \/ \E ids \in SeqsUpTo(ItemIds, maxIds) : remove_playlist_items("k1", ids)
    \/ \E ids \in SeqsUpTo(ItemIds, maxIds), resps \in SeqsUpTo(deletes, maxIds) :
          fn_remove_playlist_items("k1", ids, resps)

-----------------------------------------------------------------------------
(* Spec: the life of the configuration and of the clients built from it.   *)

Init ==
    /\ config = [baseurl |-> None, token |-> None, version |-> None]
    /\ env \in Envs
    /\ client = NoClient
    /\ auth = FALSE
    /\ reqs = <<>>
    /\ last = NoOp
    /\ arg = NoArg
    /\ held = <<>>

Configure ==
    \/ \E ip \in ServerIps, port \in ServerPorts : set_baseurl(ip, port)
    \/ \E t \in {None} \cup Tokens : set_token(t)
    \/ \E resp \in IdentityResponses : PlexAuthentication_init(resp)
    \/ \E resp \in SignInResponses, wraps \in BOOLEAN :
          verify_authentication("user", "secret", resp, wraps)
    \/ PlexAPIClient_init
    \/ fn_PlexAPIClient_init

Next ==
    \/ Configure
    \/ Reads(FewGets, FewGets, FewItems, RatingKeys)
    \/ Writes(FewPosts, FewDeletes, RatingKeys, 1)

Spec == Init /\ [][Next]_vars

-----------------------------------------------------------------------------
(* SpecRead and SpecWrite: the operations of a configured program over the *)
(* full sets of answers.  The configuration does not change; it starts in  *)
(* one of the states Spec reaches.                                         *)

Configured(tokens) ==
    {[config |-> [baseurl |-> "http://h1:32400", token |-> t, version |-> "1.40"],
      env |-> e, client |-> NewClient("http://h1:32400", "t1"), auth |-> TRUE] :
        t \in tokens, e \in Envs}

InitConfigured(tokens) ==
    /\ \E d \in Configured(tokens) :
          /\ config = d.config
          /\ env = d.env
          /\ client = d.client
          /\ auth = d.auth
    /\ reqs = <<>>
    /\ last = NoOp
    /\ arg = NoArg
    /\ held = <<>>

InitRead == InitConfigured({"t1"})

NextRead == Reads(ListingResponses, MetadataResponses, ItemResponses, {"k1"})

SpecRead == InitRead /\ [][NextRead]_vars

InitWrite == InitConfigured({"t1", None})

NextWrite == Writes(PostResponses, DeleteResponses, RatingKeys, MaxIds)

SpecWrite == InitWrite /\ [][NextWrite]_vars

-----------------------------------------------------------------------------
(* SpecParser: PlexPlaylistParser applied once to an input drawn in Init   *)

AttrValues(vs) == {None, ""} \cup vs

PlaylistElems ==
    {PL(rk, t, pt) : rk \in AttrValues(RatingKeys), t \in AttrValues({"A"}),
                     pt \in AttrValues({"audio"})}
    \cup {Directory,
          MkElemK("Directory", [title |-> "D"], <<PL("k2", "A", "audio")>>)}

Roots == {NoneV} \cup {TreeV(e) : e \in SeqsUpTo(PlaylistElems, MaxElems)}

InitParser ==
    /\ config = [baseurl |-> None, token |-> None, version |-> None]
    /\ env = [PLEX_BASEURL |-> None, PLEX_TOKEN |-> None]
    /\ client = NoClient
    /\ auth = FALSE
    /\ reqs = <<>>
    /\ last = NoOp
    /\ arg \in Roots
    /\ held = <<>>

call_extract_playlists ==
    /\ last = NoOp
    /\ last' = Done("extract_playlists", "parser", <<>>, <<>>,
                    Return(ListV(extract_playlists(arg)), <<>>))
    /\ UNCHANGED <<config, env, client, auth, reqs, arg, held>>

NextParser == call_extract_playlists

SpecParser == InitParser /\ [][NextParser]_vars

-----------------------------------------------------------------------------
(* SpecItems: extract_playlist_items applied to an items document drawn in *)
(* Init, then parse_playlist_data of either revision applied to the list   *)
(* it returned (the List[Dict] get_playlist_items hands to its caller).    *)

TrackAt(title, index, artist, album, id) ==
    MkElem("Track", [type |-> "track", title |-> title, index |-> index,
                     parentTitle |-> album, grandparentTitle |-> artist,
                     playlistItemID |-> id])

Episode(title, index, show, season, id) ==
    MkElem("Video", [type |-> "episode", title |-> title, index |-> index,
                     parentTitle |-> season, grandparentTitle |-> show,
                     playlistItemID |-> id])

Movie(title, id) ==
    MkElem("Video", [type |-> "movie", title |-> title, year |-> "1999",
                     duration |-> "60", thumb |-> "m.jpg", playlistItemID |-> id])

ItemElems ==
    {Track("T", "i1"), TrackAt("V", "1", "A", "B", "i2"),
     TrackAt("W", "x", "A", "B", "i1"), TrackAt("Y", "3", None, "B", "i1"),
     TrackAt("Z", "03", "A", "", "i2"),
     MkElem("Track", [type |-> "photo", title |-> "Q", playlistItemID |-> "i1"]),
     MkElem("Track", [title |-> "N", playlistItemID |-> "i2"]),
     Episode("E", "3", "S", "S1", "i1"), Episode("F", "1", "S", "S1", "i2"),
     Episode("G", "1", "", "S1", "i1"), Episode("H", "x", "S", "S1", "i2"),
     Movie("M", "i1"), Movie("M", "i2"), Movie(None, "i2"),
     MkElem("Video", [type |-> "clip", title |-> "C", playlistItemID |-> "i1"]),
     Photo("P", "i1"), Photo("P", "i2"), Photo("", "i2"),
     Directory}

(* one element with every subset of type, title, index and playlistItemID  *)
(* missing                                                                 *)
SparseAttrs == {"type", "title", "index", "playlistItemID"}

SparseOf(tag, type, present) ==
    MkElem(tag, [a \in SparseAttrs |->
                   IF a \notin present THEN None
                   ELSE IF a = "type" THEN type
                   ELSE IF a = "title" THEN "T"
                   ELSE IF a = "index" THEN "3"
                   ELSE "i1"])

SparseElems ==
    {SparseOf(tt[1], tt[2], present) :
        tt \in {<<"Track", "track">>, <<"Video", "episode">>, <<"Video", "movie">>,
                <<"Photo", "photo">>},
        present \in SUBSET SparseAttrs}

PlaylistTypes == {"audio", "video", "photo"}

ItemInputs ==
    {[t |-> "items", root |-> r, playlist_type |-> pt] :
        r \in {NoneV} \cup {TreeV(e) : e \in SeqsUpTo(ItemElems, MaxElems)}
              \cup {TreeV(<<e>>) : e \in SparseElems},
        pt \in PlaylistTypes \cup {"other", None}}

ItemEnvs ==
    {[PLEX_BASEURL |-> "http://h1:32400", PLEX_TOKEN |-> "t1"],
     [PLEX_BASEURL |-> None, PLEX_TOKEN |-> "t1"]}

InitItems ==
    /\ config = [baseurl |-> "http://h1:32400", token |-> "t1", version |-> "1.40"]
    /\ env \in ItemEnvs
    /\ client = NewClient("http://h1:32400", "t1")
    /\ auth = TRUE
    /\ reqs = <<>>
    /\ last = NoOp
    /\ arg \in ItemInputs
    /\ held = <<>>

call_extract_playlist_items ==
    /\ last = NoOp
    /\ arg.t = "items"
    /\ last' = Done("extract_playlist_items", "parser", <<>>, <<>>,
                    Return(ListV(extract_playlist_items(arg.root, arg.playlist_type)),
                           <<>>))
    /\ UNCHANGED <<config, env, client, auth, reqs, arg, held>>

parse_playlist_data ==
    /\ last.op = "extract_playlist_items"
    /\ client # NoClient
    /\ last' = Done("parse_playlist_data", "pkg", <<last.ret.v>>, <<>>,
                    ParsePlaylistData(last.ret.v, client.baseurl))
    /\ UNCHANGED <<config, env, client, auth, reqs, arg, held>>

fn_parse_playlist_data ==
    /\ last.op = "extract_playlist_items"
    /\ last' = Done("parse_playlist_data", "fn", <<last.ret.v>>, <<>>,
                    fn_ParsePlaylistData(last.ret.v, env.PLEX_BASEURL))
    /\ UNCHANGED <<config, env, client, auth, reqs, arg, held>>

NextItems ==
    \/ call_extract_playlist_items
    \/ parse_playlist_data
    \/ fn_parse_playlist_data

SpecItems == InitItems /\ [][NextItems]_vars

-----------------------------------------------------------------------------
(* SpecPure: a caller that calls the parser functions again and again, on  *)
(* inputs of its choice, and keeps every result.                           *)

PureInputs ==
    {[t |-> "items", playlist_type |-> "audio",
      root |-> TreeV(<<Track("T", "i1"), PL("k1", "A", "audio")>>)],
     [t |-> "items", playlist_type |-> "photo",
      root |-> TreeV(<<Photo("P", "i1"), TrackAt("W", "x", "A", "B", "i1")>>)],
     [t |-> "items", playlist_type |-> "video",
      root |-> TreeV(<<Movie("M", "i1"), Episode("E", "3", "S", "S1", "i1")>>)]}

InitPure ==
    /\ config = [baseurl |-> "http://h1:32400", token |-> "t1", version |-> "1.40"]
    /\ env = [PLEX_BASEURL |-> "http://h1:32400", PLEX_TOKEN |-> "t1"]
    /\ client = NewClient("http://h1:32400", "t1")
    /\ auth = TRUE
    /\ reqs = <<>>
    /\ last = NoOp
    /\ arg \in PureInputs
    /\ held = <<>>

(* the caller keeps the result of the call it just made *)
Keep(done) ==
    /\ Len(held) < MaxCalls
    /\ last' = done
    /\ held' = Append(held, [op |-> done.op, impl |-> done.impl, input |-> arg,
                             ret |-> done.ret])
    /\ UNCHANGED <<config, env, client, auth, reqs, arg>>

repeat_extract_playlists ==
    Keep(Done("extract_playlists", "parser", <<>>, <<>>,
              Return(ListV(extract_playlists(arg.root)), <<>>)))

repeat_extract_playlist_items ==
    Keep(Done("extract_playlist_items", "parser", <<>>, <<>>,
              Return(ListV(extract_playlist_items(arg.root, arg.playlist_type)), <<>>)))

(* a parse_playlist_data whose sorted_data outlives the call *)
repeat_parse_playlist_data_shared(impl) ==
    LET data == extract_playlist_items(arg.root, arg.playlist_type)
        sorted_data == IF last.op = "parse_playlist_data" THEN last.ret.v ELSE EmptySorted
    IN Keep(Done("parse_playlist_data", impl, <<data>>, <<>>,
                 ParseLoop(data, sorted_data, <<>>,
                           IF impl = "pkg" THEN client.baseurl ELSE env.PLEX_BASEURL,
                           impl)))

(* parse_playlist_data of either revision on the items of the input *)
repeat_parse_playlist_data(impl) ==
    LET data == extract_playlist_items(arg.root, arg.playlist_type)
    IN Keep(Done("parse_playlist_data", impl, <<data>>, <<>>,
                 IF impl = "pkg" THEN ParsePlaylistData(data, client.baseurl)
                 ELSE fn_ParsePlaylistData(data, env.PLEX_BASEURL)))

(* the caller turns to another input *)
next_input ==
    /\ arg' \in PureInputs \ {arg}
    /\ UNCHANGED <<config, env, client, auth, reqs, last, held>>

NextPure ==
    \/ repeat_extract_playlists
    \/ repeat_extract_playlist_items
    \/ \E impl \in {"pkg", "fn"} : repeat_parse_playlist_data(impl)
    \/ next_input

SpecPure == InitPure /\ [][NextPure]_vars

-----------------------------------------------------------------------------
(* Properties *)

ReadOps == {"get_playlists", "get_playlist_ratingKey", "get_playlist_items"}

Is2xx(r)  == r.kind = "resp" /\ r.status \in 200..299
IsStatus(r, codes) == r.kind = "resp" /\ r.status \in codes

(* a GET that failed: network exception, non-2xx status or malformed XML *)
GetFailed(r) == ~Is2xx(r) \/ r.body.fmt # "xml"

(* C1: a read operation (get_playlists, get_playlist_ratingKey,            *)
(* get_playlist_items) one of whose GETs failed, or whose metadata answer  *)
(* has no Playlist element, returns to its caller: no exception escapes.   *)
C1_ReadsNeverRaise ==
    (/\ last.op \in ReadOps
     /\ last.resps # <<>>
     /\ \/ \E i \in DOMAIN last.resps : GetFailed(last.resps[i])
        \/ /\ last.op = "get_playlist_items"
           /\ \A j \in DOMAIN last.resps[1].body.elems :
                 last.resps[1].body.elems[j].tag # "Playlist")
    => last.outcome = "return"

EnvComplete    == env.PLEX_BASEURL \notin {None, ""} /\ env.PLEX_TOKEN \notin {None, ""}
ConfigComplete == config.baseurl \notin {None, ""} /\ config.token \notin {None, ""}

ClientBuilt == IF last.impl = "pkg" THEN ConfigComplete ELSE EnvComplete

(* C3: remove_playlist_items returns a boolean for every id list and every *)
(* outcome of its DELETEs, True iff every DELETE answered 200 or 204, and  *)
(* no exception escapes it.                                                *)
C3_RemoveReturnsBoolean ==
    (last.op = "remove_playlist_items" /\ ClientBuilt) =>
        /\ last.outcome = "return"
        /\ last.ret.t = "bool"
        /\ last.ret.b <=> \A i \in DOMAIN last.resps : IsStatus(last.resps[i], {200, 204})

(* C4: create_playlist returns the JSON-decoded body iff the POST answered *)
(* 201, and None for every other status and for a network failure.         *)
C4_CreatedExactlyOn201 ==
    (last.op = "create_playlist" /\ last.resps # <<>>) =>
        IF IsStatus(last.resps[1], {201})
        THEN /\ last.outcome = "return"
             /\ last.ret.t = "json"
             /\ last.resps[1].body.fmt = "json" => last.ret.v = last.resps[1].body.doc
        ELSE last.outcome = "return" /\ last.ret = NoneV

(* C5: no exception escapes create_playlist whatever the POST's outcome:   *)
(* status 500 gives None and a logged error, a network failure gives None, *)
(* status 201 gives the decoded body whatever the body is.                 *)
C5_CreateNeverRaises ==
    (last.op = "create_playlist" /\ last.resps # <<>>) =>
        /\ last.outcome = "return"
        /\ IsStatus(last.resps[1], {500}) =>
              (last.ret = NoneV /\ \E i \in DOMAIN last.logs : last.logs[i] = "error")
        /\ last.resps[1].kind = "exc" => last.ret = NoneV
        /\ IsStatus(last.resps[1], {201}) => last.ret.t = "json"

(* C6: delete_playlist, once its client exists, never raises and returns   *)
(* a boolean that is True iff the DELETE answered 200 or 204 (False for    *)
(* every other status and for a network exception); the only exception is  *)
(* the constructor's ValueError of the module-level function, raised       *)
(* before any request when the environment lacks the configuration.        *)
C6_DeleteTrueIff200or204 ==
    last.op = "delete_playlist" =>
        IF last.impl = "pkg" \/ EnvComplete
        THEN /\ Len(last.resps) = 1
             /\ Len(reqs) = 1
             /\ last.outcome = "return"
             /\ last.ret.t = "bool"
             /\ last.ret.b <=> IsStatus(last.resps[1], {200, 204})
        ELSE last.outcome = "raise" /\ last.exc = "ValueError" /\ reqs = <<>>

C6_Witness ==
    /\ last.op = "delete_playlist"
    /\ last.impl = "pkg"
    /\ IsStatus(last.resps[1], {201})
    /\ last.ret = BoolV(FALSE)

(* C7: PlexAPIClient() raises ValueError exactly when the configured base  *)
(* URL or token is absent or empty, and then sends nothing; every client   *)
(* object that exists, and every request a client sends, has both.         *)
C7_ConstructionRequiresConfig ==
    /\ client # NoClient => (client.baseurl \notin {None, ""} /\ client.token \notin {None, ""})
    /\ last.op = "PlexAPIClient" =>
          /\ (last.outcome = "raise" /\ last.exc = "ValueError")
                <=> (last.args[1] \in {None, ""} \/ last.args[2] \in {None, ""})
          /\ reqs = <<>>
    /\ \A i \in DOMAIN reqs :
          reqs[i].by = "client" =>
             (reqs[i].base \notin {None, ""} /\ reqs[i].token \notin {None, ""})

C7_Witness ==
    /\ last.op = "PlexAPIClient"
    /\ last.impl = "pkg"
    /\ last.args = <<"http://h1:32400", None>>
    /\ last.outcome = "raise"
    /\ client = NoClient

(* C8 as stated: every request sent to the media server's base URL carries *)
(* an X-Plex-Token header.                                                 *)
C8_AllRequestsCarryToken ==
    \A i \in DOMAIN reqs :
        reqs[i].base # SIGNIN_URL => reqs[i].token \notin {None, ""}

(* C8 amended: every request a PlexAPIClient sends (GET, POST, DELETE)     *)
(* carries X-Plex-Token with the token the client was constructed with;    *)
(* the GET of /identity that PlexConfig._fetch_pms_version sends to the    *)
(* base URL carries no X-Plex-Token header.                                *)
C8_ClientRequestsCarryToken ==
    \A i \in DOMAIN reqs :
        /\ reqs[i].by = "client" =>
              /\ reqs[i].token \notin {None, ""}
              /\ reqs[i].token = IF last.impl = "pkg" THEN client.token
                                                      ELSE env.PLEX_TOKEN
        /\ reqs[i].by = "config" =>
              (reqs[i].token = None /\ reqs[i].endpoint = <<"identity">>)

C8_Witness ==
    /\ last.op = "delete_playlist"
    /\ last.impl = "pkg"
    /\ reqs # <<>>
    /\ reqs[1].method = "DELETE"
    /\ reqs[1].token = "t2"
    /\ config.token # "t2"

(* C9: a PlexAPIClient, once constructed, keeps its base URL and token:    *)
(* only a construction replaces the object, and every request one of its   *)
(* methods sends goes to the base URL and carries the token the object     *)
(* held before the call, whatever config_instance holds by then.           *)
C9Step ==
    /\ client' # client => (last'.op = "PlexAPIClient" /\ last'.outcome = "return")
    /\ last'.impl = "pkg" =>
          \A i \in DOMAIN reqs' :
              reqs'[i].base = client.baseurl /\ reqs'[i].token = client.token

C9_RequestsUseCapturedConfig == [][C9Step]_vars

C9_Witness ==
    /\ last.impl = "pkg"
    /\ reqs # <<>>
    /\ client = NewClient("http://h1:32400", "t1")
    /\ config.baseurl = "http://h2:32400"
    /\ config.token = "t2"
    /\ reqs[1].base = "http://h1:32400"
    /\ reqs[1].token = "t1"

(* C10: extract_playlists returns, in document order and once each, the    *)
(* (ratingKey, title, playlistType) of exactly the Playlist elements that  *)
(* carry all three attributes non-empty; no tuple has a missing or empty   *)
(* component; an absent root gives the empty list.                         *)
DocOrder == IF arg.t = "None" THEN <<>> ELSE Descendants(arg.elems)

HasAll(e) ==
    /\ e.tag = "Playlist"
    /\ \A a \in PlaylistAttrs : a \in DOMAIN e.attrs /\ e.attrs[a] # ""

C10_ExtractPlaylistsFilters ==
    last.op = "extract_playlists" =>
        LET res  == last.ret.v
            good == {i \in DOMAIN DocOrder : HasAll(DocOrder[i])}
        IN /\ Len(res) = Cardinality(good)
           /\ \A k \in DOMAIN res :
                 /\ \A c \in 1..3 : res[k][c] \notin {None, ""}
                 /\ \E i \in good :
                       /\ Cardinality({j \in good : j <= i}) = k
                       /\ res[k] = <<DocOrder[i].attrs.ratingKey, DocOrder[i].attrs.title,
                                     DocOrder[i].attrs.playlistType>>
           /\ arg.t = "None" => res = <<>>

C10_Witness ==
    /\ last.op = "extract_playlists"
    /\ arg = TreeV(<<PL("k2", None, "audio"), PL("k1", "A", "audio")>>)
    /\ last.ret.v = <<<<"k1", "A", "audio">>>>

(* C11: get_playlists returns one record per Playlist element of the       *)
(* listing, filed under its type: every key of the result is audio, video  *)
(* or photo, every record under a key has ratingKey, title and             *)
(* playlistType present with playlistType equal to the key, and the result *)
(* is the empty mapping when the fetch of the listing failed.              *)
FetchFailed(r) == r.kind = "exc" \/ r.status \in 400..599 \/ r.body.fmt # "xml"

PlaylistsOf(r) ==
    SelectSeq(Descendants(r.body.elems), LAMBDA e : e.tag = "Playlist")

RecordCount(d) ==
    Cardinality({<<k, i>> \in (DOMAIN d) \X (1..MaxElems + 1) : i \in DOMAIN d[k]})

C11_PlaylistsCategorized ==
    (last.op = "get_playlists" /\ last.resps # <<>>) =>
        /\ last.outcome = "return"
        /\ last.ret.t = "dict"
        /\ LET d == last.ret.v
               r == last.resps[1]
           IN IF FetchFailed(r) THEN d = <<>>
              ELSE /\ RecordCount(d) = Len(PlaylistsOf(r))
                   /\ \A k \in DOMAIN d :
                         /\ k \in PlaylistTypes
                         /\ \A i \in DOMAIN d[k] :
                               /\ d[k][i].ratingKey # None
                               /\ d[k][i].title # None
                               /\ d[k][i].playlistType = k

(* C12: extract_playlist_items returns one entry per Track element for an  *)
(* audio playlist, per Video element for video, per Photo element for      *)
(* photo, in document order (the k-th entry is read from the k-th such     *)
(* element); for every other playlist type and for an absent root it       *)
(* returns the empty list.                                                 *)
ItemDocOrder == IF arg.root.t = "None" THEN <<>> ELSE Descendants(arg.root.elems)

TagOf(playlist_type) ==
    CASE playlist_type = "audio" -> "Track"
      [] playlist_type = "video" -> "Video"
      [] playlist_type = "photo" -> "Photo"
      [] OTHER -> "no such tag"

Matched == {i \in DOMAIN ItemDocOrder : ItemDocOrder[i].tag = TagOf(arg.playlist_type)}

(* the position in the document of the k-th matched element *)
MatchedAt(k) == CHOOSE i \in Matched : Cardinality({j \in Matched : j <= i}) = k

C12_ExtractItemsDispatch ==
    last.op = "extract_playlist_items" =>
        LET res == last.ret.v
        IN /\ Len(res) = Cardinality(Matched)
           /\ \A k \in DOMAIN res :
                 res[k] # NoneV =>
                    /\ res[k].title = Get(ItemDocOrder[MatchedAt(k)], "title")
                    /\ res[k].type = Get(ItemDocOrder[MatchedAt(k)], "type")
                    /\ res[k].playlistItemID =
                          Get(ItemDocOrder[MatchedAt(k)], "playlistItemID")
           /\ (arg.playlist_type \notin PlaylistTypes \/ arg.root.t = "None") => res = <<>>

C12_Witness ==
    /\ last.op = "extract_playlist_items"
    /\ arg.playlist_type = "video"
    /\ arg.root = TreeV(<<Episode("E", "3", "S", "S1", "i1"), Track("T", "i1")>>)
    /\ Len(last.ret.v) = 1
    /\ last.ret.v[1].title = "E"

(* C13: every entry extract_playlist_items returns is a mapping with the   *)
(* fields of its variant, each the attribute of the element or None when   *)
(* the attribute is missing, whatever attributes (the type included) the   *)
(* element lacks; no entry is a non-mapping.                               *)
ItemFields ==
    {{"key", "title", "duration", "index", "type", "parentTitle", "grandparentTitle",
      "grandparentThumb", "playlistItemID"},
     {"key", "title", "type", "duration", "year", "thumb", "playlistItemID"},
     {"key", "title", "type", "thumb", "playlistItemID", "file"}}

C13_ItemsAreMappings ==
    last.op = "extract_playlist_items" =>
        \A k \in DOMAIN last.ret.v :
            LET item == last.ret.v[k]
            IN /\ item # NoneV
               /\ DOMAIN item \in ItemFields
               /\ \A f \in DOMAIN item \ {"file"} :
                     item[f] = Get(ItemDocOrder[MatchedAt(k)], f)

(* the call of parse_playlist_data under examination *)
Parsed == last.op = "parse_playlist_data"
Data   == last.args[1]

TypeIs(item, type) == item # NoneV /\ ItemGet(item, "type") = type

ItemTypes == {"track", "photo", "episode", "movie"}

(* C14: parse_playlist_data files an item by the item's own type alone,    *)
(* whatever the type of the playlist it was read from: every entry under   *)
(* tracks is the entry of an item of type track, under episodes of type    *)
(* episode, under photos of type photo, under movies of type movie, and a  *)
(* list with no item of these four types gives four empty values.          *)
GroupedFrom(groups, type) ==
    \A a \in DOMAIN groups : \A b \in DOMAIN groups[a] : \A i \in DOMAIN groups[a][b] :
        \E k \in DOMAIN Data :
            /\ TypeIs(Data[k], type)
            /\ ItemGet(Data[k], "grandparentTitle") = a
            /\ ItemGet(Data[k], "parentTitle") = b
            /\ ItemGet(Data[k], "title") = groups[a][b][i].title
            /\ ItemGet(Data[k], "playlistItemID") = groups[a][b][i].playlistItemID

TitledFrom(titled, type) ==
    \A t \in DOMAIN titled :
        \E k \in DOMAIN Data :
            /\ TypeIs(Data[k], type)
            /\ ItemGet(Data[k], "title") = t
            /\ ItemGet(Data[k], "playlistItemID") = titled[t].playlistItemID

C14_ClassifiedByOwnType ==
    Parsed =>
        /\ last.outcome = "return"
        /\ GroupedFrom(last.ret.v.tracks, "track")
        /\ GroupedFrom(last.ret.v.episodes, "episode")
        /\ TitledFrom(last.ret.v.photos, "photo")
        /\ TitledFrom(last.ret.v.movies, "movie")
        /\ (\A k \in DOMAIN Data : \A type \in ItemTypes : ~TypeIs(Data[k], type))
              => last.ret.v = EmptySorted

(* a Track element of type photo in an audio playlist is filed under photos *)
C14_Witness ==
    /\ Parsed
    /\ arg.playlist_type = "audio"
    /\ Len(Data) = 2
    /\ TypeIs(Data[1], "photo") /\ TypeIs(Data[2], "track")
    /\ DOMAIN last.ret.v.photos = {"Q"}
    /\ DOMAIN last.ret.v.tracks = {"A"}
    /\ last.ret.v.movies = EmptyDict

(* C15: within every tracks[artist][album] and episodes[show][season] list *)
(* the entries are those of the input items of that type, artist and album *)
(* (show and season), in input order, each item once and none left out.    *)
Eligible(type, a, b) ==
    SelectSeq(Data, LAMBDA item : /\ TypeIs(item, type)
                                  /\ ItemGet(item, "grandparentTitle") = a
                                  /\ ItemGet(item, "parentTitle") = b)

OrderKept(groups, type) ==
    /\ \A a \in DOMAIN groups : \A b \in DOMAIN groups[a] :
          /\ Len(groups[a][b]) = Len(Eligible(type, a, b))
          /\ \A i \in DOMAIN groups[a][b] :
                /\ groups[a][b][i].title = ItemGet(Eligible(type, a, b)[i], "title")
                /\ groups[a][b][i].playlistItemID =
                      ItemGet(Eligible(type, a, b)[i], "playlistItemID")
    /\ \A k \in DOMAIN Data :
          (/\ TypeIs(Data[k], type)
           /\ Truthy(ItemGet(Data[k], "grandparentTitle"))
           /\ Truthy(ItemGet(Data[k], "parentTitle")))
          => /\ ItemGet(Data[k], "grandparentTitle") \in DOMAIN groups
             /\ ItemGet(Data[k], "parentTitle")
                   \in DOMAIN groups[ItemGet(Data[k], "grandparentTitle")]

C15_OrderPreserved ==
    Parsed =>
        /\ OrderKept(last.ret.v.tracks, "track")
        /\ OrderKept(last.ret.v.episodes, "episode")

(* C16: parse_playlist_data of the single track item with grandparentTitle *)
(* A, parentTitle B, title T and index "3" returns tracks[A][B] equal to   *)
(* the one-element list [(T, 3, itemId)] with the integer 3; and every     *)
(* entry under tracks and episodes is a 3-tuple whose index is the integer *)
(* value of the index of an item with its title and playlistItemID.        *)
IntegerOf(index, n) ==
    \/ index \in {None, ""} /\ n = 0
    \/ index \in {"0"} /\ n = 0
    \/ index \in {"1"} /\ n = 1
    \/ index \in {"3", "03"} /\ n = 3

EntriesAreTuples(groups, type) ==
    \A a \in DOMAIN groups : \A b \in DOMAIN groups[a] : \A i \in DOMAIN groups[a][b] :
        LET entry == groups[a][b][i]
        IN /\ entry.seq = "tuple"
           /\ entry.index.t = "int"
           /\ \E k \in DOMAIN Data :
                 /\ TypeIs(Data[k], type)
                 /\ ItemGet(Data[k], "title") = entry.title
                 /\ ItemGet(Data[k], "playlistItemID") = entry.playlistItemID
                 /\ IntegerOf(ItemGet(Data[k], "index"), entry.index.n)

TheTrack(id) ==
    [key |-> None, title |-> "T", duration |-> None, index |-> "3", type |-> "track",
     parentTitle |-> "B", grandparentTitle |-> "A", grandparentThumb |-> None,
     playlistItemID |-> id]

C16_TrackEntryIsTuple ==
    Parsed =>
        /\ \A id \in ItemIds :
              Data = <<TheTrack(id)>> =>
                 /\ DOMAIN last.ret.v.tracks = {"A"}
                 /\ DOMAIN last.ret.v.tracks["A"] = {"B"}
                 /\ last.ret.v.tracks["A"]["B"] = <<Tuple3("T", IntV(3), id)>>
        /\ EntriesAreTuples(last.ret.v.tracks, "track")
        /\ EntriesAreTuples(last.ret.v.episodes, "episode")

(* C17: parse_playlist_data does not raise; a track without artist or      *)
(* album, an episode without show or season and a photo or movie without   *)
(* title gets no entry under any key (no key of the result is missing or   *)
(* empty), and the result is the one of the same list without these items. *)
MissesKey(item) ==
    \/ /\ TypeIs(item, "track") \/ TypeIs(item, "episode")
       /\ Falsy(ItemGet(item, "grandparentTitle")) \/ Falsy(ItemGet(item, "parentTitle"))
    \/ /\ TypeIs(item, "photo") \/ TypeIs(item, "movie")
       /\ Falsy(ItemGet(item, "title"))

WithoutSkipped == SelectSeq(Data, LAMBDA item : ~MissesKey(item))

ResultOf(data) ==
    IF last.impl = "pkg" THEN ParsePlaylistData(data, client.baseurl).ret
    ELSE fn_ParsePlaylistData(data, env.PLEX_BASEURL).ret

KeysPresent(groups) ==
    \A a \in DOMAIN groups : Truthy(a) /\ \A b \in DOMAIN groups[a] : Truthy(b)

C17_SkipsItemsWithoutKey ==
    Parsed =>
        /\ last.outcome = "return"
        /\ KeysPresent(last.ret.v.tracks)
        /\ KeysPresent(last.ret.v.episodes)
        /\ \A t \in DOMAIN last.ret.v.photos : Truthy(t)
        /\ \A t \in DOMAIN last.ret.v.movies : Truthy(t)
        /\ last.ret = ResultOf(WithoutSkipped)

(* a track without artist before a complete track: only the second is filed *)
C17_Witness ==
    /\ Parsed
    /\ Len(Data) = 2
    /\ MissesKey(Data[1]) /\ TypeIs(Data[1], "track")
    /\ Data[2] = TheTrack("i1")
    /\ DOMAIN last.ret.v.tracks = {"A"}
    /\ Len(last.ret.v.tracks["A"]["B"]) = 1
    /\ last.ret.v.tracks["A"]["B"][1].title = "T"

(* C18: parse_playlist_data of a list of photo items that miss their title *)
(* returns with photos empty and has logged one record per item, each at   *)
(* warning level (none at error level).                                    *)
C18_PhotoWithoutTitleWarns ==
    (/\ Parsed
     /\ Data # <<>>
     /\ \A k \in DOMAIN Data :
           TypeIs(Data[k], "photo") /\ Falsy(ItemGet(Data[k], "title")))
    => /\ last.outcome = "return"
       /\ last.ret.v.photos = EmptyDict
       /\ last.logs = [k \in DOMAIN Data |-> "warning"]

(* C19: parse_playlist_data returns, for every item list, a mapping with   *)
(* exactly the keys tracks, photos, episodes and movies, and for the empty *)
(* list all four values are empty.                                         *)
C19_FourFixedKeys ==
    Parsed =>
        /\ last.outcome = "return"
        /\ last.ret.t = "dict"
        /\ DOMAIN last.ret.v = {"tracks", "photos", "episodes", "movies"}
        /\ Data = <<>> =>
              \A k \in DOMAIN last.ret.v : last.ret.v[k] = EmptyDict

C19_Witness ==
    /\ Parsed
    /\ Data = <<>>
    /\ last.ret = DictV(EmptySorted)

(* the four keys are there when only one of them has entries *)
C19_WitnessFilled ==
    /\ Parsed
    /\ Data = <<TheTrack("i1")>>
    /\ last.ret.v.tracks # EmptyDict
    /\ last.ret.v.movies = EmptyDict

(* C20: get_playlist_items sends its requests one after the other: first   *)
(* the GET of /playlists/{id}; the GET of /playlists/{id}/items second and *)
(* only when the answer to the first carried a Playlist element; it        *)
(* consumes one answer per request sent, and sends no items request when   *)
(* the metadata is absent.                                                 *)
HasPlaylist(r) ==
    /\ r.kind = "resp"
    /\ r.body.fmt = "xml"
    /\ \E i \in DOMAIN Descendants(r.body.elems) :
          Descendants(r.body.elems)[i].tag = "Playlist"

C20_ItemsRequestsSequential ==
    (last.op = "get_playlist_items" /\ reqs # <<>>) =>
        LET id == last.args[1]
        IN /\ Len(reqs) \in {1, 2}
           /\ Len(last.resps) = Len(reqs)
           /\ reqs[1].method = "GET"
           /\ reqs[1].endpoint = <<"playlists", id>>
           /\ Len(reqs) = 2 =>
                 /\ reqs[2].method = "GET"
                 /\ reqs[2].endpoint = <<"playlists", id, "items">>
                 /\ HasPlaylist(last.resps[1])
           /\ ~HasPlaylist(last.resps[1]) => Len(reqs) = 1

C20_Witness ==
    /\ last.op = "get_playlist_items"
    /\ last.impl = "pkg"
    /\ Len(reqs) = 2
    /\ reqs[2].endpoint = <<"playlists", "k1", "items">>
    /\ HasPlaylist(last.resps[1])
    /\ last.resps[2] = Response(200, XmlBody(<<>>, <<Track("T", "i1"), Track("U", "i2")>>))
    /\ Len(last.ret.v) = 2

(* an absent metadata answer: one request, no items request *)
C20_WitnessAbsent ==
    /\ last.op = "get_playlist_items"
    /\ last.impl = "pkg"
    /\ last.resps = <<Response(200, XmlBody(<<>>, <<Directory>>))>>
    /\ Len(reqs) = 1
    /\ last.ret = ListV(<<>>)

(* C21: a call of a transport operation (_request, _get, _post, _delete)   *)
(* sends exactly one HTTP request and consumes exactly one answer, failed  *)
(* or not, and the request carries the one fixed timeout.                  *)
TransportOps == {"_request", "_get", "_post", "_delete"}

C21_OneRequestFixedTimeout ==
    last.op \in TransportOps =>
        /\ Len(reqs) = 1
        /\ Len(last.resps) = 1
        /\ reqs[1].timeout = {TIMEOUT}

(* C22 as stated: create_playlist sends one POST to {baseurl}/playlists    *)
(* whose form-encoded fields are exactly type, title and uri, uri being    *)
(* the item ids in the given order each prefixed with library://.          *)
LibraryUris(item_uris) == [i \in DOMAIN item_uris |-> <<"library://", item_uris[i]>>]

CreateFields ==
    [type |-> last.args[2], title |-> last.args[1], uri |-> LibraryUris(last.args[3])]

CreateSent == last.op = "create_playlist" /\ last.resps # <<>>

C22_CreateSendsFormFields ==
    CreateSent =>
        /\ Len(reqs) = 1
        /\ reqs[1].method = "POST"
        /\ reqs[1].endpoint = <<"playlists">>
        /\ reqs[1].form = CreateFields

(* C22 amended: create_playlist sends one POST to {baseurl}/playlists      *)
(* whose query parameters are exactly type, title and uri, uri being the   *)
(* item ids in the given order each prefixed with library://; the request  *)
(* has no form-encoded body.                                               *)
C22_CreateSendsQueryFields ==
    CreateSent =>
        /\ Len(reqs) = 1
        /\ reqs[1].method = "POST"
        /\ reqs[1].endpoint = <<"playlists">>
        /\ reqs[1].base = (IF last.impl = "pkg" THEN client.baseurl ELSE env.PLEX_BASEURL)
        /\ reqs[1].params = CreateFields
        /\ reqs[1].form = NoData

C22_Witness ==
    /\ CreateSent
    /\ last.args[3] = <<"k2", "k1">>
    /\ reqs[1].params.uri = <<<<"library://", "k2">>, <<"library://", "k1">>>>
    /\ reqs[1].params.type = "audio"
    /\ reqs[1].params.title = "A"

(* C23: the parser functions are pure: two calls of parse_playlist_data,   *)
(* extract_playlists or extract_playlist_items on equal inputs return      *)
(* equal results whatever calls were made in between; a call changes no    *)
(* result returned earlier, and leaves its input as it was.                *)
SameCall(a, b) == a.op = b.op /\ a.impl = b.impl /\ a.input = b.input

EqualInputsEqualResults ==
    \A i \in DOMAIN held : \A j \in DOMAIN held :
        SameCall(held[i], held[j]) => held[i].ret = held[j].ret

CallKeepsInputAndEarlierResults ==
    /\ Len(held') >= Len(held)
    /\ SubSeq(held', 1, Len(held)) = held
    /\ Len(held') > Len(held) => arg' = arg /\ held'[Len(held')].input = arg

Candidates(r, playlist_title) ==
    SelectSeq(Descendants(r.body.elems),
              LAMBDA e : HasAll(e) /\ e.attrs.title = playlist_title)

-----------------------------------------------------------------------------
(* Sign-in answers as the claims about authentication speak of them *)
AnsweredSignIn ==
    /\ last.op = "verify_authentication"
    /\ last.resps # <<>>

CarriesToken(resp) ==
    /\ resp.kind = "resp"
    /\ IsJson(resp.body)
    /\ "user" \in DOMAIN resp.body.doc
    /\ ~IsNull(resp.body.doc.user)
    /\ "authToken" \in DOMAIN resp.body.doc.user

CalledWith(fn, a) == \E i \in DOMAIN last.calls : last.calls[i] = Call(fn, a)

Called(fn) == \E i \in DOMAIN last.calls : last.calls[i].fn = fn

(* C25: when there is no stored token and the sign-in answers a 2xx status *)
(* with a body carrying user.authToken = t, verify_authentication returns, *)
(* the configuration's token is t, exactly one request was issued, the     *)
(* sign-in POST with the credentials as form fields, and store_token was   *)
(* called with t after the token setter of the configuration was.          *)
C25_SignInStoresToken ==
    (/\ AnsweredSignIn
     /\ Falsy(get_stored_token)
     /\ Is2xx(last.resps[1])
     /\ CarriesToken(last.resps[1]))
    => LET t == last.resps[1].body.doc.user.authToken
       IN /\ last.outcome = "return"
          /\ config.token = t
          /\ reqs = <<SignInRequest(last.args[1], last.args[2])>>
          /\ \E i, j \in DOMAIN last.calls :
                /\ i < j
                /\ last.calls[i] = Call("token.setter", t)
                /\ last.calls[j] = Call("store_token", t)

C25_Witness ==
    /\ AnsweredSignIn
    /\ last.resps[1] = Response(201, JsonBody([user |-> [authToken |-> "t2"]]))
    /\ config.token = "t2"
    /\ CalledWith("store_token", "t2")

(* C26: when the sign-in request raises a network error, answers a status  *)
(* outside 2xx, or its body has no user.authToken, verify_authentication   *)
(* (and with it fetch_plex_token) raises AuthenticationError and nothing   *)
(* else, and neither the token setter nor store_token is called.           *)
C26_FailureRaisesAuthenticationError ==
    (/\ AnsweredSignIn
     /\ (~Is2xx(last.resps[1]) \/ ~CarriesToken(last.resps[1])))
    => /\ last.outcome = "raise"
       /\ last.exc = "AuthenticationError"
       /\ ~Called("token.setter")
       /\ ~Called("store_token")

(* C27: a verify_authentication that directly follows a successful one     *)
(* uses the token that one stored: it issues no request and leaves the     *)
(* configuration's token at the stored value.                              *)
C27Step ==
    (/\ last.op = "verify_authentication"
     /\ last.outcome = "return"
     /\ last'.op = "verify_authentication")
    => /\ reqs' = <<>>
       /\ last'.outcome = "return"
       /\ config'.token = config.token

C27_StoredTokenReused == [][C27Step]_vars

(* C28: remove_playlist_items, where a client can be constructed, sends    *)
(* one DELETE per id in the order of the list up to and including the      *)
(* first id whose DELETE did not answer 200 or 204, and none after it;     *)
(* the result is True exactly when every id was deleted, and for the       *)
(* empty list nothing is sent and the result is True.                      *)
C28_RemoveStopsAtFirstFailure ==
    (last.op = "remove_playlist_items" /\ last.exc # "ValueError")
    => LET key == last.args[1]
           ids == last.args[2]
           n   == Len(reqs)
       IN /\ last.outcome = "return"
          /\ n = Len(last.resps)
          /\ n <= Len(ids)
          /\ ids # <<>> => n >= 1
          /\ \A i \in 1..n :
                /\ reqs[i].method = "DELETE"
                /\ reqs[i].endpoint = ItemEndpoint(key, ids[i])
                /\ i < n => IsStatus(last.resps[i], {200, 204})
          /\ n < Len(ids) => ~IsStatus(last.resps[n], {200, 204})
          /\ last.ret = BoolV(\A i \in 1..n : IsStatus(last.resps[i], {200, 204}))

(* C29: every item of the list whose processing raises (a null entry; in   *)
(* plex/api_client.py also a track or episode whose index is not numeric)  *)
(* is logged once at error level and contributes nothing:                  *)
(* parse_playlist_data returns, and its result is the result of the same   *)
(* list with that item removed.                                            *)
RaisesOn(item) ==
    \/ item = NoneV
    \/ /\ last.impl = "pkg"
       /\ TypeIs(item, "track") \/ TypeIs(item, "episode")
       /\ ~int(ItemGet(item, "index")).ok

Without(data, k) == SubSeq(data, 1, k - 1) \o SubSeq(data, k + 1, Len(data))

ErrorsLogged == Len(SelectSeq(last.logs, LAMBDA l : l = "error"))

C29_FailuresIsolatedPerItem ==
    Parsed =>
        /\ last.outcome = "return"
        /\ ErrorsLogged = Cardinality({k \in DOMAIN Data : RaisesOn(Data[k])})
        /\ \A k \in DOMAIN Data : RaisesOn(Data[k]) => last.ret = ResultOf(Without(Data, k))

(* an episode with a non-numeric index after a complete one: only the      *)
(* complete one is filed, and one error is logged                          *)
C29_Witness ==
    /\ Parsed
    /\ last.impl = "pkg"
    /\ Len(Data) = 2
    /\ TypeIs(Data[2], "episode") /\ ItemGet(Data[2], "index") = "x"
    /\ RaisesOn(Data[2]) /\ ~RaisesOn(Data[1])
    /\ ErrorsLogged = 1
    /\ DOMAIN last.ret.v.episodes = {"S"}
    /\ Len(last.ret.v.episodes["S"]["S1"]) = 1

(* C30: photos and movies are keyed by title, the last item of a title     *)
(* winning: the titles under photos (movies) are exactly the non-empty     *)
(* titles of the photo (movie) items, as many entries as distinct titles,  *)
(* and the entry of a title holds the attributes of the last such item.    *)
Titled(type) == {k \in DOMAIN Data : TypeIs(Data[k], type) /\ Truthy(ItemGet(Data[k], "title"))}

TitlesOf(type) == {ItemGet(Data[k], "title") : k \in Titled(type)}

LastTitled(type, title) ==
    CHOOSE k \in Titled(type) :
        /\ ItemGet(Data[k], "title") = title
        /\ \A j \in Titled(type) : ItemGet(Data[j], "title") = title => j <= k

BaseUrlUsed == IF last.impl = "pkg" THEN client.baseurl ELSE env.PLEX_BASEURL

C30_LastWriteWins ==
    Parsed =>
        /\ last.outcome = "return"
        /\ DOMAIN last.ret.v.photos = TitlesOf("photo")
        /\ DOMAIN last.ret.v.movies = TitlesOf("movie")
        /\ Cardinality(DOMAIN last.ret.v.photos) = Cardinality(TitlesOf("photo"))
        /\ Cardinality(DOMAIN last.ret.v.movies) = Cardinality(TitlesOf("movie"))
        /\ \A t \in TitlesOf("photo") :
              LET item == Data[LastTitled("photo", t)]
              IN last.ret.v.photos[t] =
                    [file |-> UrlOf(BaseUrlUsed, ItemGet(item, "file")),
                     thumb |-> UrlOf(BaseUrlUsed, ItemGet(item, "thumb")),
                     playlistItemID |-> ItemGet(item, "playlistItemID")]
        /\ \A t \in TitlesOf("movie") :
              LET item == Data[LastTitled("movie", t)]
              IN last.ret.v.movies[t] =
                    [year |-> ItemGet(item, "year"),
                     duration |-> ItemGet(item, "duration"),
                     playlistItemID |-> ItemGet(item, "playlistItemID")]

(* two photos titled P: one entry, holding the id of the second *)
C30_Witness ==
    /\ Parsed
    /\ Len(Data) = 2
    /\ TypeIs(Data[1], "photo") /\ TypeIs(Data[2], "photo")
    /\ ItemGet(Data[1], "title") = "P" /\ ItemGet(Data[2], "title") = "P"
    /\ ItemGet(Data[1], "playlistItemID") = "i1"
    /\ ItemGet(Data[2], "playlistItemID") = "i2"
    /\ DOMAIN last.ret.v.photos = {"P"}
    /\ last.ret.v.photos["P"].playlistItemID = "i2"

(* two movies titled M: one entry, holding the id of the second *)
C30_WitnessMovies ==
    /\ Parsed
    /\ Len(Data) = 2
    /\ TypeIs(Data[1], "movie") /\ TypeIs(Data[2], "movie")
    /\ ItemGet(Data[1], "playlistItemID") = "i2"
    /\ ItemGet(Data[2], "playlistItemID") = "i1"
    /\ DOMAIN last.ret.v.movies = {"M"}
    /\ last.ret.v.movies["M"].playlistItemID = "i1"

====
